---- MODULE Spec2Model ----
(***************************************************************************)
(* gh-csd: the SSH retry loop (cmd/ssh.go, sshWithRetry) and the local     *)
(* command-execution daemon (the server command: Server.Listen,            *)
(* Server.Serve, Server.ServeHTTP, Server.handleExec).                     *)
(*                                                                         *)
(* The specifications share the variables below:                           *)
(*   RetrySpec    - one invocation of sshWithRetry with its signal         *)
(*                  channel, its session subprocess and its                *)
(*                  port-forwarding subprocess;                            *)
(*   RetryLiveSpec - the same, with weak fairness of the loop's own steps  *)
(*                  and of the delay timer;                                *)
(*   Spec         - daemons started against one socket path, with stop     *)
(*                  and status requests;                                   *)
(*   ExecSpec     - one daemon serving every kind of request on            *)
(*                  concurrent connections;                                *)
(*   HandlerSpec  - one daemon answering every kind of body, decodable or  *)
(*                  not;                                                   *)
(*   ShutdownSpec - one daemon shut down while it serves requests, with    *)
(*                  weak fairness of the daemon's own steps;               *)
(*   CodecSpec    - one message written and read back by the protocol      *)
(*                  package;                                               *)
(*   LocalSpec    - one invocation of gh csd local (cmd/local.go);         *)
(*   RunSSHSpec   - one invocation of gh csd ssh from the resolution of    *)
(*                  its target to the end of sshOnce or sshWithRetry;      *)
(*   StoreSpec    - Set, Clear and Get of the state package in any order;  *)
(*   DeleteSpec   - one invocation of gh csd delete (cmd/delete.go).       *)
(* Each specification keeps the other components' variables at their       *)
(* initial value.                                                          *)
(***************************************************************************)
EXTENDS Integers, Sequences, FiniteSets, TLC

\* ------------------------------------------------------------------ bounds
\* largest --max-retries value tried
MaxRetriesFlag == 3
\* session attempts explored when --max-retries is 0 (unlimited)
MaxAttempts == 4
\* SIGINT/SIGTERM deliveries explored in one invocation
MaxSignals == 2
\* largest exit status of a session process or of an executed command
MaxExitStatus == 1
\* longest string put through the protocol codec, in characters
MaxStrLen == 1
\* operations made on the current-selection store in one run
MaxStoreOps == 4
\* codespaces named in one invocation of gh csd delete
MaxDeleteNames == 2
\* daemon processes started against the socket path
NumDaemons == 2
\* connections open at one time to the single daemon of ExecSpec
MaxConns == 2
\* connections open at one time while daemons race for the socket path
RaceConns == 1

\* ------------------------------------------------------- program constants
\* default of --retry-delay, in seconds
DefaultRetryDelay == 3
\* capacity of sigChan: make(chan os.Signal, 1)
SigChanCap == 1

VARIABLES
    \* ---- sshWithRetry
    loopPc,         \* position of the loop
    retries,        \* the local variable retries
    attempts,       \* number of cmd.Run() calls made so far (history)
    sigChan,        \* number of signals buffered in sigChan
    sigCount,       \* number of signals delivered to the process (history)
    runErr,         \* exit status of the last cmd.Run(); 0 is err == nil
    result,         \* what sshWithRetry printed last / returned
    sshMaxRetries,  \* flag --max-retries
    sshRetryDelay,  \* flag --retry-delay
    ports,          \* repoCfg.Ports
    portFwdCmd,     \* the handle startPortForwarding returned
    fwdProc,        \* state of the forwarder's OS process
    fwdSignals,     \* signals sent to the forwarder in this attempt (history)
    ctxDone,        \* the attempt's context was cancelled
    blocked,        \* the loop blocked in the wait's select this iteration (history)
    orphans,        \* forwarders still running when the next one was started (history)
    timedOut,       \* a stopPortForwarding call ended by its 2 s timeout (history)
    \* ---- the daemon
    sockFile,       \* what is at socketPath on disk
    srvPc,          \* position of each daemon process in Listen / Serve
    listenErr,      \* what Listen returned, per daemon
    listening,      \* the daemon holds an open listening socket
    ctxCancelled,   \* the daemon's serve context is cancelled
    binds,          \* net.Listen calls made, per daemon (history)
    removes,        \* stale-socket removals made, per daemon (history)
    conns,          \* the connections and their request handlers
    \* ---- the protocol codec
    codecPc,        \* position of a message between WriteX and ReadX
    codecMsg,       \* the message handed to WriteRequest / WriteResponse
    codecWire,      \* the JSON text written
    codecOut,       \* the message ReadRequest / ReadResponse produced
    \* ---- runLocal
    localPc,        \* position of one invocation of gh csd local
    localArgs,      \* its arguments: the command to run on the local machine
    localSent,      \* requests it wrote to the socket (history)
    localReply,     \* the ExecResponse it decoded
    localErr,       \* the error runLocal returned
    localExit,      \* the exit code of the process
    \* ---- runSSH
    sshCodespace,   \* flag --codespace
    sshArgs,        \* the positional arguments of gh csd ssh
    stateFile,      \* the file that records the current selection
    name,           \* the local variable name of runSSH
    useRetry,       \* the local variable useRetry of runSSH
    \* ---- the state package used on its own
    storeLast,      \* the last operation on the store and what it returned
    storeLog,       \* the operations made on the store, in order (history)
    \* ---- runDelete
    deletePc,       \* position of one invocation of gh csd delete
    toDelete,       \* the local variable toDelete
    currentCS,      \* the local variable currentCS
    deleteIdx,      \* number of names of toDelete the loop is done with
    failed,         \* the local variable failed
    deleteErr       \* the error runDelete returned

retryVars == <<loopPc, retries, attempts, sigChan, sigCount, runErr, result,
               sshMaxRetries, sshRetryDelay, ports, portFwdCmd, fwdProc,
               fwdSignals, ctxDone, blocked, orphans, timedOut>>

\* what is recorded about the forwarders of earlier attempts
fwdHist == <<orphans, timedOut>>

daemonVars == <<sockFile, srvPc, listenErr, listening, ctxCancelled, binds,
                removes, conns>>

codecVars == <<codecPc, codecMsg, codecWire, codecOut>>

\* the variables of the commands other than ssh --retry and server
localVars == <<localPc, localArgs, localSent, localReply, localErr, localExit>>

targetVars == <<sshCodespace, sshArgs, stateFile, name, useRetry>>

storeVars == <<storeLast, storeLog>>

deleteVars == <<deletePc, toDelete, currentCS, deleteIdx, failed, deleteErr>>

\* the variables of the state store used on its own and of gh csd delete
toolVars == <<storeVars, deleteVars>>

cliVars == <<codecVars, localVars, targetVars, toolVars>>

vars == <<retryVars, daemonVars, cliVars>>

\* ======================================================================
\* sshWithRetry (cmd/ssh.go)
\* ======================================================================

ExitStatuses == 0..MaxExitStatus

\* the loop is past "return"
Returned == loopPc = "done"

\* startPortForwarding: nil without ports or when cmd.Start fails, otherwise
\* the started command
\* (variant without the test of len(ports))
startPortForwardingMutIgnoresPorts ==
    \/ portFwdCmd' = "nil" /\ fwdProc' = "none"
    \/ portFwdCmd' = "cmd" /\ fwdProc' = "running"
startPortForwarding ==
    IF Len(ports) = 0
    THEN portFwdCmd' = "nil" /\ fwdProc' = "none"
    ELSE \/ portFwdCmd' = "nil" /\ fwdProc' = "none"
         \/ portFwdCmd' = "cmd" /\ fwdProc' = "running"

\* top of the for loop: a fresh context, the forwarder, then cmd.Run() starts
StartAttempt ==
    /\ loopPc = "attempt"
    /\ attempts < MaxAttempts
    /\ ctxDone' = FALSE
    /\ fwdSignals' = <<>>
    /\ startPortForwarding
    /\ attempts' = attempts + 1
    /\ loopPc' = "session"
    /\ blocked' = FALSE
    /\ UNCHANGED <<retries, sigChan, sigCount, runErr, result,
                   sshMaxRetries, sshRetryDelay, ports>>
    /\ orphans' = orphans + (IF fwdProc = "running" THEN 1 ELSE 0)
    /\ UNCHANGED timedOut
    /\ UNCHANGED daemonVars
    /\ UNCHANGED cliVars

\* cmd.Run() returns with exit status s; cancel() follows at once
SessionExit(s) ==
    /\ loopPc = "session"
    /\ runErr' = s
    /\ ctxDone' = TRUE
    /\ loopPc' = "stop"
    /\ UNCHANGED <<retries, attempts, sigChan, sigCount, result,
                   sshMaxRetries, sshRetryDelay, ports, portFwdCmd, fwdProc,
                   fwdSignals, blocked>>
    /\ UNCHANGED fwdHist
    /\ UNCHANGED daemonVars
    /\ UNCHANGED cliVars

\* stopPortForwarding, up to the select: nothing for a nil handle, else SIGTERM
\* (variant that returns after SIGTERM without waiting for the process)
StopPortForwardingMutNoWait ==
    /\ loopPc = "stop"
    /\ loopPc' = "classify"
    /\ IF portFwdCmd = "nil"
       THEN UNCHANGED fwdSignals
       ELSE fwdSignals' = Append(fwdSignals, "SIGTERM")
    /\ UNCHANGED <<retries, attempts, sigChan, sigCount, runErr, result,
                   sshMaxRetries, sshRetryDelay, ports, portFwdCmd, fwdProc,
                   ctxDone, blocked>>
    /\ UNCHANGED fwdHist
    /\ UNCHANGED daemonVars
    /\ UNCHANGED cliVars
StopPortForwarding ==
    /\ loopPc = "stop"
    /\ IF portFwdCmd = "nil"
       THEN loopPc' = "classify" /\ UNCHANGED fwdSignals
       ELSE loopPc' = "fwdwait" /\ fwdSignals' = Append(fwdSignals, "SIGTERM")
    /\ UNCHANGED <<retries, attempts, sigChan, sigCount, runErr, result,
                   sshMaxRetries, sshRetryDelay, ports, portFwdCmd, fwdProc,
                   ctxDone, blocked>>
    /\ UNCHANGED fwdHist
    /\ UNCHANGED daemonVars
    /\ UNCHANGED cliVars

\* stopPortForwarding: case <-done (cmd.Wait() returned)
StopWaitDone ==
    /\ loopPc = "fwdwait"
    /\ fwdProc = "exited"
    /\ loopPc' = "classify"
    /\ UNCHANGED <<retries, attempts, sigChan, sigCount, runErr, result,
                   sshMaxRetries, sshRetryDelay, ports, portFwdCmd, fwdProc,
                   fwdSignals, ctxDone, blocked>>
    /\ UNCHANGED fwdHist
    /\ UNCHANGED daemonVars
    /\ UNCHANGED cliVars

\* stopPortForwarding: case <-time.After(2s), then cmd.Process.Kill()
\* (variant whose timeout case returns without killing)
StopWaitTimeoutMutNoKill ==
    /\ loopPc = "fwdwait"
    /\ fwdProc = "running"
    /\ loopPc' = "classify"
    /\ timedOut' = TRUE
    /\ UNCHANGED <<retries, attempts, sigChan, sigCount, runErr, result,
                   sshMaxRetries, sshRetryDelay, ports, portFwdCmd, fwdProc,
                   fwdSignals, ctxDone, blocked, orphans>>
    /\ UNCHANGED daemonVars
    /\ UNCHANGED cliVars
StopWaitTimeout ==
    /\ loopPc = "fwdwait"
    /\ fwdProc = "running"
    /\ fwdSignals' = Append(fwdSignals, "SIGKILL")
    /\ fwdProc' = "exited"
    /\ loopPc' = "classify"
    /\ UNCHANGED <<retries, attempts, sigChan, sigCount, runErr, result,
                   sshMaxRetries, sshRetryDelay, ports, portFwdCmd, ctxDone, blocked>>
    /\ timedOut' = TRUE
    /\ UNCHANGED orphans
    /\ UNCHANGED daemonVars
    /\ UNCHANGED cliVars

\* the retry bound: sshMaxRetries > 0 && retries >= sshMaxRetries
\* (variant without the sshMaxRetries > 0 guard)
RetryBoundMutUnguarded(r) == r >= sshMaxRetries
\* (variant that allows one retry more than sshMaxRetries)
RetryBoundMutStrict(r) == sshMaxRetries > 0 /\ r > sshMaxRetries
RetryBoundReached(r) == sshMaxRetries > 0 /\ r >= sshMaxRetries

\* the classification after the forwarder was stopped: err == nil first, then
\* the non-blocking receive from sigChan, then retries++ and the bound
\* (variant that tests the retry bound before sigChan)
PostExitCheckMutBoundFirst ==
    /\ loopPc = "classify"
    /\ IF runErr = 0
       THEN /\ loopPc' = "done" /\ result' = "ended_normally"
            /\ UNCHANGED <<retries, sigChan>>
       ELSE IF RetryBoundReached(retries + 1)
       THEN /\ loopPc' = "done" /\ result' = "max_retries"
            /\ retries' = retries + 1
            /\ UNCHANGED sigChan
       ELSE IF sigChan > 0
       THEN /\ loopPc' = "done" /\ result' = "disconnected"
            /\ sigChan' = sigChan - 1
            /\ UNCHANGED retries
       ELSE /\ loopPc' = "select" /\ result' = "connection_lost"
            /\ retries' = retries + 1
            /\ UNCHANGED sigChan
    /\ UNCHANGED <<attempts, sigCount, runErr, sshMaxRetries, sshRetryDelay,
                   ports, portFwdCmd, fwdProc, fwdSignals, ctxDone, blocked>>
    /\ UNCHANGED fwdHist
    /\ UNCHANGED daemonVars
    /\ UNCHANGED cliVars

\* (variant that reads sigChan before testing err == nil)
PostExitCheckMutSignalFirst ==
    /\ loopPc = "classify"
    /\ IF sigChan > 0
       THEN /\ loopPc' = "done" /\ result' = "disconnected"
            /\ sigChan' = sigChan - 1
            /\ UNCHANGED retries
       ELSE IF runErr = 0
       THEN /\ loopPc' = "done" /\ result' = "ended_normally"
            /\ UNCHANGED <<retries, sigChan>>
       ELSE IF RetryBoundReached(retries + 1)
       THEN /\ loopPc' = "done" /\ result' = "max_retries"
            /\ retries' = retries + 1
            /\ UNCHANGED sigChan
       ELSE /\ loopPc' = "select" /\ result' = "connection_lost"
            /\ retries' = retries + 1
            /\ UNCHANGED sigChan
    /\ UNCHANGED <<attempts, sigCount, runErr, sshMaxRetries, sshRetryDelay,
                   ports, portFwdCmd, fwdProc, fwdSignals, ctxDone, blocked>>
    /\ UNCHANGED fwdHist
    /\ UNCHANGED daemonVars
    /\ UNCHANGED cliVars

PostExitCheck ==
    /\ loopPc = "classify"
    /\ IF runErr = 0
       THEN /\ loopPc' = "done" /\ result' = "ended_normally"
            /\ UNCHANGED <<retries, sigChan>>
       ELSE IF sigChan > 0
       THEN /\ loopPc' = "done" /\ result' = "disconnected"
            /\ sigChan' = sigChan - 1
            /\ UNCHANGED retries
       ELSE IF RetryBoundReached(retries + 1)
       THEN /\ loopPc' = "done" /\ result' = "max_retries"
            /\ retries' = retries + 1
            /\ UNCHANGED sigChan
       ELSE /\ loopPc' = "select" /\ result' = "connection_lost"
            /\ retries' = retries + 1
            /\ UNCHANGED sigChan
    /\ UNCHANGED <<attempts, sigCount, runErr, sshMaxRetries, sshRetryDelay,
                   ports, portFwdCmd, fwdProc, fwdSignals, ctxDone, blocked>>
    /\ UNCHANGED fwdHist
    /\ UNCHANGED daemonVars
    /\ UNCHANGED cliVars

\* case <-sigChan of the wait: "Reconnection cancelled.", return nil
\* (variant in which the signal only ends the wait)
WaitCancelledMutSkipsWait ==
    /\ loopPc' = "attempt"
    /\ result' = "reconnection_cancelled"
WaitCancelled ==
    /\ loopPc' = "done"
    /\ result' = "reconnection_cancelled"

\* case <-time.After(delay) of the wait: fall out of the select, loop again
WaitElapsed ==
    /\ loopPc' = "attempt"
    /\ UNCHANGED result

\* the wait's select is entered: a case that is ready is taken (any of them when
\* both are ready, which a zero delay makes possible), else the loop blocks
EnterWait ==
    /\ loopPc = "select"
    /\ IF sigChan > 0
       THEN \/ WaitCancelled /\ sigChan' = sigChan - 1
            \/ sshRetryDelay <= 0 /\ WaitElapsed /\ UNCHANGED sigChan
       ELSE /\ IF sshRetryDelay <= 0
               THEN WaitElapsed
               ELSE loopPc' = "wait" /\ UNCHANGED result
            /\ UNCHANGED sigChan
    /\ blocked' = (loopPc' = "wait")
    /\ UNCHANGED <<retries, attempts, sigCount, runErr, sshMaxRetries,
                   sshRetryDelay, ports, portFwdCmd, fwdProc, fwdSignals,
                   ctxDone>>
    /\ UNCHANGED fwdHist
    /\ UNCHANGED daemonVars
    /\ UNCHANGED cliVars

\* the delay timer fires while the loop is blocked in the wait
TimerFires ==
    /\ loopPc = "wait"
    /\ WaitElapsed
    /\ UNCHANGED <<retries, attempts, sigChan, sigCount, runErr,
                   sshMaxRetries, sshRetryDelay, ports, portFwdCmd, fwdProc,
                   fwdSignals, ctxDone, blocked>>
    /\ UNCHANGED fwdHist
    /\ UNCHANGED daemonVars
    /\ UNCHANGED cliVars

\* SIGINT or SIGTERM reaches the process: signal.Notify hands it to a receiver
\* blocked on sigChan, else buffers it when there is room, else drops it
SignalDelivered ==
    /\ ~Returned
    /\ sigCount < MaxSignals
    /\ sigCount' = sigCount + 1
    /\ IF loopPc = "wait"
       THEN WaitCancelled /\ UNCHANGED sigChan
       ELSE /\ sigChan' = IF sigChan < SigChanCap THEN sigChan + 1 ELSE sigChan
            /\ UNCHANGED <<loopPc, result>>
    /\ UNCHANGED <<retries, attempts, runErr, sshMaxRetries, sshRetryDelay,
                   ports, portFwdCmd, fwdProc, fwdSignals, ctxDone, blocked>>
    /\ UNCHANGED fwdHist
    /\ UNCHANGED daemonVars
    /\ UNCHANGED cliVars

\* the forwarder process exits (on its own, or in answer to SIGTERM)
ForwarderExits ==
    /\ fwdProc = "running"
    /\ fwdProc' = "exited"
    /\ UNCHANGED <<loopPc, retries, attempts, sigChan, sigCount, runErr,
                   result, sshMaxRetries, sshRetryDelay, ports, portFwdCmd,
                   fwdSignals, ctxDone, blocked>>
    /\ UNCHANGED fwdHist
    /\ UNCHANGED daemonVars
    /\ UNCHANGED cliVars

\* exec.CommandContext: once the context is done the command is killed
ContextKill ==
    /\ ctxDone
    /\ fwdProc = "running"
    /\ fwdSignals' = Append(fwdSignals, "SIGKILL")
    /\ fwdProc' = "exited"
    /\ UNCHANGED <<loopPc, retries, attempts, sigChan, sigCount, runErr,
                   result, sshMaxRetries, sshRetryDelay, ports, portFwdCmd,
                   ctxDone, blocked>>
    /\ UNCHANGED fwdHist
    /\ UNCHANGED daemonVars
    /\ UNCHANGED cliVars

\* ======================================================================
\* the daemon (server command): Listen, Serve, ServeHTTP, handleExec
\* ======================================================================

Daemons == 1..NumDaemons
Conns == 1..(IF MaxConns > RaceConns THEN MaxConns ELSE RaceConns)

\* ---- strings that the code inspects, as sequences of characters
S_gh == <<"g", "h">>
S_Gh == <<"G", "h">>
S_ghh == <<"g", "h", "h">>
S_slash == <<"/">>
S_dot == <<".">>
S_abs_gh == <<"/", "g", "h">>
S_gh_slash == <<"g", "h", "/">>
S_gh_g == <<"g", "h", "/", "g">>
S_arg == <<"p", "r">>
S_dir_gh == <<"/", "t", "/", "g", "h">>

\* var allowedCommands = []string{"gh"}
allowedCommands == <<S_gh>>

\* ---- filepath.Base: "" is ".", trailing separators are dropped, the part
\* after the last separator is kept, a path of separators only is "/"
RECURSIVE StripTrailingSlashes(_)
StripTrailingSlashes(p) ==
    IF Len(p) > 0 /\ p[Len(p)] = "/"
    THEN StripTrailingSlashes(SubSeq(p, 1, Len(p) - 1))
    ELSE p

RECURSIVE AfterLastSlash(_)
AfterLastSlash(p) ==
    IF \E i \in 1..Len(p) : p[i] = "/"
    THEN AfterLastSlash(Tail(p))
    ELSE p

Base(path) ==
    IF Len(path) = 0 THEN S_dot
    ELSE LET stripped == StripTrailingSlashes(path)
             last == AfterLastSlash(stripped)
         IN  IF Len(last) = 0 THEN S_slash ELSE last

\* isAllowedCommand: the base name equals an entry of allowedCommands
\* (variant that accepts a base name starting with an entry)
isAllowedCommandMutPrefix(cmd) ==
    \E i \in 1..Len(allowedCommands) :
        LET a == allowedCommands[i]
        IN  Len(Base(cmd)) >= Len(a) /\ SubSeq(Base(cmd), 1, Len(a)) = a
isAllowedCommand(cmd) ==
    \E i \in 1..Len(allowedCommands) : Base(cmd) = allowedCommands[i]

\* ---- request bodies on the wire and json.Unmarshal into ExecRequest
AbsentCommand == [tag |-> "absent", val |-> <<>>]
ArrayCommand(v) == [tag |-> "array", val |-> v]
\* "command" holding a JSON string: not a []string
StringCommand == [tag |-> "string", val |-> <<>>]

\* a body that is not JSON
Garbage == [readable |-> TRUE, wellFormed |-> FALSE, type |-> "",
            command |-> AbsentCommand, workdir |-> ""]
\* a body whose read fails (the client went away while sending it)
Unreadable == [readable |-> FALSE, wellFormed |-> FALSE, type |-> "",
               command |-> AbsentCommand, workdir |-> ""]
JsonBody(t, c, w) == [readable |-> TRUE, wellFormed |-> TRUE, type |-> t,
                      command |-> c, workdir |-> w]

Paths == {<<>>, S_Gh, S_ghh, S_slash, S_abs_gh, S_gh_slash, S_gh_g}

ExecBodies ==
    {JsonBody("exec", ArrayCommand(<<p>>), "") : p \in Paths}
    \cup {JsonBody("exec", ArrayCommand(<<S_gh, S_arg>>), "/tmp"),
          JsonBody("exec", ArrayCommand(<<S_Gh, S_gh>>), "/tmp"),
          JsonBody("exec", ArrayCommand(<<>>), ""),
          JsonBody("exec", AbsentCommand, ""),
          JsonBody("exec", StringCommand, "")}

OtherBodies ==
    {JsonBody(t, AbsentCommand, "") : t \in {"status", "stop", "restart", ""}}
    \cup {JsonBody("status", ArrayCommand(<<S_ghh>>), "/tmp"),
          JsonBody("restart", ArrayCommand(<<S_gh>>), ""),
          Garbage, Unreadable}

Bodies == ExecBodies \cup OtherBodies

\* bodies json.Unmarshal rejects whatever they say: cut off in the middle, or
\* with a string where the command list belongs
UndecodableBodies ==
    {[Garbage EXCEPT !.type = "stop"],
     [Garbage EXCEPT !.type = "exec", !.command = ArrayCommand(<<S_gh>>)],
     JsonBody("stop", StringCommand, "")}

\* every kind of body, with status requests that carry a command
HandlerBodies ==
    Bodies \cup UndecodableBodies
           \cup {JsonBody("status", ArrayCommand(<<S_gh, S_arg>>), "/tmp")}
        \cup {JsonBody("exec", ArrayCommand(<<S_dir_gh, S_arg>>), "/tmp")}

\* the request of runServerStop and a status request
LifecycleBodies == {JsonBody("stop", AbsentCommand, ""),
                    JsonBody("status", AbsentCommand, "")}

\* stop and status requests and the request of "gh csd local gh pr"
ShutdownBodies ==
    LifecycleBodies \cup {JsonBody("exec", ArrayCommand(<<S_gh, S_arg>>), "/tmp"),
                          Garbage}

ZeroRequest == [Type |-> "", Command |-> <<>>, Workdir |-> ""]

\* json.Unmarshal(body, &req): an error for a body that is not JSON or holds a
\* value of the wrong type; absent fields keep their zero value
\* (variant that also rejects an exec request without a command)
UnmarshalMutRequiresCommand(b) ==
    IF \/ ~b.wellFormed
       \/ b.command.tag = "string"
       \/ b.type = "exec" /\ Len(b.command.val) = 0
    THEN [ok |-> FALSE, req |-> ZeroRequest]
    ELSE [ok |-> TRUE,
          req |-> [Type |-> b.type,
                   Command |-> IF b.command.tag = "array" THEN b.command.val
                               ELSE <<>>,
                   Workdir |-> b.workdir]]
Unmarshal(b) ==
    IF ~b.wellFormed \/ b.command.tag = "string"
    THEN [ok |-> FALSE, req |-> ZeroRequest]
    ELSE [ok |-> TRUE,
          req |-> [Type |-> b.type,
                   Command |-> IF b.command.tag = "array" THEN b.command.val
                               ELSE <<>>,
                   Workdir |-> b.workdir]]

\* ---- responses
NoResponse == [stdout |-> "", stderr |-> "", exit_code |-> 0, error |-> "",
               status |-> "", written |-> FALSE]
\* writeErrorResponse
\* (variant that leaves ExitCode at its zero value)
writeErrorResponseMutZeroCode(errMsg, exitCode) ==
    [stdout |-> "", stderr |-> "", exit_code |-> 0, error |-> errMsg,
     status |-> "", written |-> TRUE]
writeErrorResponse(errMsg, exitCode) ==
    [stdout |-> "", stderr |-> "", exit_code |-> exitCode, error |-> errMsg,
     status |-> "", written |-> TRUE]
\* the ExecResponse of a completed command
\* (variant that reports a nonzero exit status as a failed command)
ExecResultMutNonzeroIsError(out, err, code) ==
    IF code # 0
    THEN [stdout |-> "", stderr |-> "", exit_code |-> 1,
          error |-> "command failed", status |-> "", written |-> TRUE]
    ELSE [stdout |-> out, stderr |-> err, exit_code |-> code, error |-> "",
          status |-> "", written |-> TRUE]
ExecResult(out, err, code) ==
    [stdout |-> out, stderr |-> err, exit_code |-> code, error |-> "",
     status |-> "", written |-> TRUE]
\* w.Write([]byte(`{"status":"..."}`))
StatusReply(st) ==
    [stdout |-> "", stderr |-> "", exit_code |-> 0, error |-> "",
     status |-> st, written |-> TRUE]

\* what a child wrote to stdout and stderr
Outputs == {<<"", "">>, <<"out", "err">>}

\* ---- connections
\* the child of a handler: what exec.Command was given, and what cmd.Run()
\* collected once the child exited
NoProc == [started |-> FALSE, path |-> <<>>, args |-> <<>>, dir |-> "",
           exited |-> FALSE, code |-> 0, out |-> <<"", "">>]
IdleConn == [st |-> "idle", srv |-> 0, body |-> Garbage, resp |-> NoResponse,
             proc |-> NoProc]

\* ---- the socket path on disk
NoFile == [exists |-> FALSE, owner |-> 0]
\* a socket file whose creator is dead
StaleFile == [exists |-> TRUE, owner |-> 0]
FileOf(d) == [exists |-> TRUE, owner |-> d]

\* isServerRunning: net.DialTimeout on the path connects
\* (variant whose probe never connects)
isServerRunningMutNever == FALSE
isServerRunning ==
    /\ sockFile.exists
    /\ sockFile.owner \in Daemons
    /\ listening[sockFile.owner]

\* a request handler of daemon d has not returned yet
InFlight(d) ==
    \E c \in Conns : conns[c].srv = d /\ conns[c].st \in {"sent", "buffered", "running"}

Exit(d, err) ==
    /\ srvPc' = [srvPc EXCEPT ![d] = "exited"]
    /\ listenErr' = [listenErr EXCEPT ![d] = err]

\* Listen, up to the first net.Listen: MkdirAll, then the bind
ListenBind(d) ==
    /\ srvPc[d] = "idle"
    /\ \/ /\ Exit(d, "failed to create socket directory")
          /\ UNCHANGED <<sockFile, listening, binds>>
       \/ /\ binds' = [binds EXCEPT ![d] = @ + 1]
          /\ \/ /\ Exit(d, "failed to listen on socket")
                /\ UNCHANGED <<sockFile, listening>>
             \/ /\ sockFile.exists
                /\ srvPc' = [srvPc EXCEPT ![d] = "probe"]
                /\ UNCHANGED <<sockFile, listening, listenErr>>
             \/ /\ ~sockFile.exists
                /\ sockFile' = FileOf(d)
                /\ listening' = [listening EXCEPT ![d] = TRUE]
                /\ srvPc' = [srvPc EXCEPT ![d] = "serving"]
                /\ UNCHANGED listenErr
    /\ UNCHANGED <<ctxCancelled, removes, conns>>
    /\ UNCHANGED retryVars
    /\ UNCHANGED cliVars

\* Listen after EADDRINUSE: the probe decides between "already running" and
\* the stale-socket path
ListenProbe(d) ==
    /\ srvPc[d] = "probe"
    /\ IF isServerRunning
       THEN Exit(d, "server already running")
       ELSE srvPc' = [srvPc EXCEPT ![d] = "remove"] /\ UNCHANGED listenErr
    /\ UNCHANGED <<sockFile, listening, ctxCancelled, binds, removes, conns>>
    /\ UNCHANGED retryVars
    /\ UNCHANGED cliVars

\* os.Remove(s.socketPath) of the stale-socket path
ListenRemoveStale(d) ==
    /\ srvPc[d] = "remove"
    /\ sockFile' = NoFile
    /\ removes' = [removes EXCEPT ![d] = @ + 1]
    /\ srvPc' = [srvPc EXCEPT ![d] = "rebind"]
    /\ UNCHANGED <<listenErr, listening, ctxCancelled, binds, conns>>
    /\ UNCHANGED retryVars
    /\ UNCHANGED cliVars

\* the second net.Listen; any error ends Listen
\* (variant that probes again when the second bind finds the path in use)
ListenRebindMutLoops(d) ==
    /\ srvPc[d] = "rebind"
    /\ binds' = [binds EXCEPT ![d] = @ + 1]
    /\ \/ /\ sockFile.exists
          /\ srvPc' = [srvPc EXCEPT ![d] = "probe"]
          /\ UNCHANGED <<sockFile, listening, listenErr>>
       \/ /\ Exit(d, "failed to listen on socket")
          /\ UNCHANGED <<sockFile, listening>>
       \/ /\ ~sockFile.exists
          /\ sockFile' = FileOf(d)
          /\ listening' = [listening EXCEPT ![d] = TRUE]
          /\ srvPc' = [srvPc EXCEPT ![d] = "serving"]
          /\ UNCHANGED listenErr
    /\ UNCHANGED <<ctxCancelled, removes, conns>>
    /\ UNCHANGED retryVars
    /\ UNCHANGED cliVars
ListenRebind(d) ==
    /\ srvPc[d] = "rebind"
    /\ binds' = [binds EXCEPT ![d] = @ + 1]
    /\ \/ /\ Exit(d, "failed to listen on socket")
          /\ UNCHANGED <<sockFile, listening>>
       \/ /\ ~sockFile.exists
          /\ sockFile' = FileOf(d)
          /\ listening' = [listening EXCEPT ![d] = TRUE]
          /\ srvPc' = [srvPc EXCEPT ![d] = "serving"]
          /\ UNCHANGED listenErr
    /\ UNCHANGED <<ctxCancelled, removes, conns>>
    /\ UNCHANGED retryVars
    /\ UNCHANGED cliVars

\* runServerStart: SIGINT or SIGTERM cancels the context
OsSignal(d) ==
    /\ srvPc[d] \in {"probe", "remove", "rebind", "serving"}
    /\ ~ctxCancelled[d]
    /\ ctxCancelled' = [ctxCancelled EXCEPT ![d] = TRUE]
    /\ UNCHANGED <<sockFile, srvPc, listenErr, listening, binds, removes, conns>>
    /\ UNCHANGED retryVars
    /\ UNCHANGED cliVars

\* Serve: httpServer.Serve returned an error other than ErrServerClosed
ServeError(d) ==
    /\ srvPc[d] = "serving"
    /\ ~ctxCancelled[d]
    /\ ctxCancelled' = [ctxCancelled EXCEPT ![d] = TRUE]
    /\ UNCHANGED <<sockFile, srvPc, listenErr, listening, binds, removes, conns>>
    /\ UNCHANGED retryVars
    /\ UNCHANGED cliVars

\* Serve after <-ctx.Done(): httpServer.Shutdown closes the listener, and a
\* unix listener made by net.Listen unlinks its path when closed
\* (variant that leaves the listener open)
ServeShutdownMutKeepsListener(d) ==
    /\ srvPc[d] = "serving"
    /\ ctxCancelled[d]
    /\ srvPc' = [srvPc EXCEPT ![d] = "shutdown"]
    /\ UNCHANGED <<sockFile, listening, listenErr, ctxCancelled, binds, removes,
                   conns>>
    /\ UNCHANGED retryVars
    /\ UNCHANGED cliVars
ServeShutdown(d) ==
    /\ srvPc[d] = "serving"
    /\ ctxCancelled[d]
    /\ listening' = [listening EXCEPT ![d] = FALSE]
    /\ sockFile' = NoFile
    /\ srvPc' = [srvPc EXCEPT ![d] = "shutdown"]
    /\ UNCHANGED <<listenErr, ctxCancelled, binds, removes, conns>>
    /\ UNCHANGED retryVars
    /\ UNCHANGED cliVars

\* httpServer.Shutdown returns: nil once no handler is running, the deadline
\* error when the 5 s pass first
\* (variant without the deadline: Shutdown waits for the last handler)
ServeReturnMutNoDeadline(d) ==
    /\ srvPc[d] = "shutdown"
    /\ ~InFlight(d)
    /\ listenErr' = [listenErr EXCEPT ![d] = "nil"]
    /\ srvPc' = [srvPc EXCEPT ![d] = "cleanup"]
    /\ UNCHANGED <<sockFile, listening, ctxCancelled, binds, removes, conns>>
    /\ UNCHANGED retryVars
    /\ UNCHANGED cliVars
ServeReturn(d) ==
    /\ srvPc[d] = "shutdown"
    /\ listenErr' = [listenErr EXCEPT ![d] =
                        IF InFlight(d) THEN "context deadline exceeded" ELSE "nil"]
    /\ srvPc' = [srvPc EXCEPT ![d] = "cleanup"]
    /\ UNCHANGED <<sockFile, listening, ctxCancelled, binds, removes, conns>>
    /\ UNCHANGED retryVars
    /\ UNCHANGED cliVars

\* the deferred os.Remove(s.socketPath); Listen returns and the process ends,
\* which drops the connections it still holds
\* (variant without the deferred os.Remove)
ListenCleanupMutNoRemove(d) ==
    /\ srvPc[d] = "cleanup"
    /\ srvPc' = [srvPc EXCEPT ![d] = "exited"]
    /\ conns' = [c \in Conns |-> IF conns[c].srv = d THEN IdleConn ELSE conns[c]]
    /\ UNCHANGED <<sockFile, listenErr, listening, ctxCancelled, binds, removes>>
    /\ UNCHANGED retryVars
    /\ UNCHANGED cliVars
ListenCleanup(d) ==
    /\ srvPc[d] = "cleanup"
    /\ sockFile' = NoFile
    /\ srvPc' = [srvPc EXCEPT ![d] = "exited"]
    /\ conns' = [c \in Conns |-> IF conns[c].srv = d THEN IdleConn ELSE conns[c]]
    /\ UNCHANGED <<listenErr, listening, ctxCancelled, binds, removes>>
    /\ UNCHANGED retryVars
    /\ UNCHANGED cliVars

\* a client connects to the socket path and sends body b
Dial(c, b) ==
    /\ conns[c].st = "idle"
    /\ isServerRunning
    /\ conns' = [conns EXCEPT ![c] = [IdleConn EXCEPT !.st = "sent",
                                                      !.srv = sockFile.owner,
                                                      !.body = b]]
    /\ UNCHANGED <<sockFile, srvPc, listenErr, listening, ctxCancelled, binds,
                   removes>>
    /\ UNCHANGED retryVars
    /\ UNCHANGED cliVars

Reply(c, r) == conns' = [conns EXCEPT ![c].st = "replied", ![c].resp = r]

\* handleExec up to cmd.Run(): the empty command, the allow-list, the launch
\* (variant that reports a launch failure as a completed command with status 1)
handleExecMutLaunchFailureAsExit(c, req) ==
    IF Len(req.Command) = 0
    THEN Reply(c, writeErrorResponse("no command specified", 1))
    ELSE IF ~isAllowedCommand(req.Command[1])
    THEN Reply(c, writeErrorResponse("command not allowed", 1))
    ELSE \/ Reply(c, ExecResult("", "", 1))
         \/ conns' = [conns EXCEPT ![c].st = "running",
                                   ![c].proc = [NoProc EXCEPT
                                                  !.started = TRUE,
                                                  !.path = req.Command[1],
                                                  !.args = Tail(req.Command),
                                                  !.dir = req.Workdir]]
\* (variant that answers an empty command with exit_code 0)
handleExecMutEmptyCommandZeroCode(c, req) ==
    IF Len(req.Command) = 0
    THEN Reply(c, writeErrorResponse("no command specified", 0))
    ELSE IF ~isAllowedCommand(req.Command[1])
    THEN Reply(c, writeErrorResponse("command not allowed", 1))
    ELSE \/ Reply(c, writeErrorResponse("command failed", 1))
         \/ conns' = [conns EXCEPT ![c].st = "running",
                                   ![c].proc = [NoProc EXCEPT
                                                  !.started = TRUE,
                                                  !.path = req.Command[1],
                                                  !.args = Tail(req.Command),
                                                  !.dir = req.Workdir]]
\* (variant that launches the final path component of the command name)
handleExecMutLaunchesBase(c, req) ==
    IF Len(req.Command) = 0
    THEN Reply(c, writeErrorResponse("no command specified", 1))
    ELSE IF ~isAllowedCommand(req.Command[1])
    THEN Reply(c, writeErrorResponse("command not allowed", 1))
    ELSE \/ Reply(c, writeErrorResponse("command failed", 1))
         \/ conns' = [conns EXCEPT ![c].st = "running",
                                   ![c].proc = [NoProc EXCEPT
                                                  !.started = TRUE,
                                                  !.path = Base(req.Command[1]),
                                                  !.args = Tail(req.Command),
                                                  !.dir = req.Workdir]]
handleExec(c, req) ==
    IF Len(req.Command) = 0
    THEN Reply(c, writeErrorResponse("no command specified", 1))
    ELSE IF ~isAllowedCommand(req.Command[1])
    THEN Reply(c, writeErrorResponse("command not allowed", 1))
    ELSE \/ Reply(c, writeErrorResponse("command failed", 1))
         \/ conns' = [conns EXCEPT ![c].st = "running",
                                   ![c].proc = [NoProc EXCEPT
                                                  !.started = TRUE,
                                                  !.path = req.Command[1],
                                                  !.args = Tail(req.Command),
                                                  !.dir = req.Workdir]]

\* the stop case: the acknowledgement goes into the response buffer, then
\* s.cancel(); net/http sends the buffer when the handler returns
StopRequested(c, d) ==
    /\ conns' = [conns EXCEPT ![c].st = "buffered",
                              ![c].resp = StatusReply("stopping")]
    /\ ctxCancelled' = [ctxCancelled EXCEPT ![d] = TRUE]

\* ServeHTTP's switch on req.Type
\* (variant whose default case also cancels the serve context)
ServeHTTPSwitchMutDefaultStops(c, d, req) ==
    CASE req.Type = "exec" -> handleExec(c, req) /\ UNCHANGED ctxCancelled
      [] req.Type = "status" ->
             Reply(c, StatusReply("running")) /\ UNCHANGED ctxCancelled
      [] req.Type = "stop" -> StopRequested(c, d)
      [] OTHER ->
             /\ Reply(c, writeErrorResponse("unknown request type: " \o req.Type, 1))
             /\ ctxCancelled' = [ctxCancelled EXCEPT ![d] = TRUE]
\* (variant whose default case answers like a status request)
ServeHTTPSwitchMutDefaultIsStatus(c, d, req) ==
    CASE req.Type = "exec" -> handleExec(c, req) /\ UNCHANGED ctxCancelled
      [] req.Type = "status" ->
             Reply(c, StatusReply("running")) /\ UNCHANGED ctxCancelled
      [] req.Type = "stop" -> StopRequested(c, d)
      [] OTHER ->
             /\ Reply(c, StatusReply("running"))
             /\ UNCHANGED ctxCancelled
\* (variant whose status case runs a command the request carries)
ServeHTTPSwitchMutStatusExecs(c, d, req) ==
    CASE req.Type = "exec" -> handleExec(c, req) /\ UNCHANGED ctxCancelled
      [] req.Type = "status" ->
             /\ IF Len(req.Command) > 0
                THEN handleExec(c, req)
                ELSE Reply(c, StatusReply("running"))
             /\ UNCHANGED ctxCancelled
      [] req.Type = "stop" -> StopRequested(c, d)
      [] OTHER ->
             /\ Reply(c, writeErrorResponse("unknown request type: " \o req.Type, 1))
             /\ UNCHANGED ctxCancelled
ServeHTTPSwitch(c, d, req) ==
    CASE req.Type = "exec" -> handleExec(c, req) /\ UNCHANGED ctxCancelled
      [] req.Type = "status" ->
             Reply(c, StatusReply("running")) /\ UNCHANGED ctxCancelled
      [] req.Type = "stop" -> StopRequested(c, d)
      [] OTHER ->
             /\ Reply(c, writeErrorResponse("unknown request type: " \o req.Type, 1))
             /\ UNCHANGED ctxCancelled

\* ServeHTTP: read the body, decode it, dispatch on req.Type
\* (variant that goes on to the switch after a decoding error, with the fields
\* json.Unmarshal had filled in)
ServeHTTPMutNoReturnOnDecodeError(c) ==
    /\ conns[c].st = "sent"
    /\ LET d == conns[c].srv
           u == Unmarshal(conns[c].body)
       IN  \/ /\ ~conns[c].body.readable
              /\ Reply(c, writeErrorResponse("failed to read request", 1))
              /\ UNCHANGED ctxCancelled
           \/ /\ conns[c].body.readable
              /\ ~u.ok
              /\ Reply(c, writeErrorResponse("invalid request format", 1))
              /\ IF conns[c].body.wellFormed /\ conns[c].body.type = "stop"
                 THEN ctxCancelled' = [ctxCancelled EXCEPT ![d] = TRUE]
                 ELSE UNCHANGED ctxCancelled
           \/ /\ conns[c].body.readable
              /\ u.ok
              /\ ServeHTTPSwitch(c, d, u.req)
    /\ UNCHANGED <<sockFile, srvPc, listenErr, listening, binds, removes>>
    /\ UNCHANGED retryVars
    /\ UNCHANGED cliVars
ServeHTTP(c) ==
    /\ conns[c].st = "sent"
    /\ LET d == conns[c].srv
           u == Unmarshal(conns[c].body)
       IN  \/ /\ ~conns[c].body.readable
              /\ Reply(c, writeErrorResponse("failed to read request", 1))
              /\ UNCHANGED ctxCancelled
           \/ /\ conns[c].body.readable
              /\ ~u.ok
              /\ Reply(c, writeErrorResponse("invalid request format", 1))
              /\ UNCHANGED ctxCancelled
           \/ /\ conns[c].body.readable
              /\ u.ok
              /\ ServeHTTPSwitch(c, d, u.req)
    /\ UNCHANGED <<sockFile, srvPc, listenErr, listening, binds, removes>>
    /\ UNCHANGED retryVars
    /\ UNCHANGED cliVars

\* the stop handler returns and net/http sends the buffered acknowledgement
HandlerReturn(c) ==
    /\ conns[c].st = "buffered"
    /\ conns' = [conns EXCEPT ![c].st = "replied"]
    /\ UNCHANGED <<sockFile, srvPc, listenErr, listening, ctxCancelled, binds,
                   removes>>
    /\ UNCHANGED retryVars
    /\ UNCHANGED cliVars

\* handleExec after cmd.Run(): the child exited with this status and output
CommandExits(c, code, o) ==
    /\ conns[c].st = "running"
    /\ conns' = [conns EXCEPT ![c].st = "replied",
                              ![c].resp = ExecResult(o[1], o[2], code),
                              ![c].proc = [@ EXCEPT !.exited = TRUE,
                                                    !.code = code,
                                                    !.out = o]]
    /\ UNCHANGED <<sockFile, srvPc, listenErr, listening, ctxCancelled, binds,
                   removes>>
    /\ UNCHANGED retryVars
    /\ UNCHANGED cliVars

\* the client has read the response and closes the connection
ClientClose(c) ==
    /\ conns[c].st = "replied"
    /\ conns' = [conns EXCEPT ![c] = IdleConn]
    /\ UNCHANGED <<sockFile, srvPc, listenErr, listening, ctxCancelled, binds,
                   removes>>
    /\ UNCHANGED retryVars
    /\ UNCHANGED cliVars

\* ======================================================================
\* the protocol codec (internal/protocol): encoding/json on ExecRequest and
\* ExecResponse
\* ======================================================================

\* a byte that is not part of any UTF-8 sequence, such as 0xff
InvalidByte == "\\xff"
\* U+FFFD, the Unicode replacement character
ReplacementChar == "\\ufffd"
\* what a Go string is made of here: a plain character, one that
\* encoding/json escapes, a stray byte, and U+FFFD itself
CodecChars == {"a", "<", InvalidByte, ReplacementChar}

\* the Go strings of at most MaxStrLen characters
Strs == UNION {[1..n -> CodecChars] : n \in 0..MaxStrLen}

\* ---- JSON text, one value per member
JAbsent == [kind |-> "absent", toks |-> <<>>, items |-> <<>>]
JNull == [kind |-> "null", toks |-> <<>>, items |-> <<>>]

\* a string: valid characters are written as they are or escaped, and every
\* byte that is not valid UTF-8 is written as the escape of U+FFFD
EncodeString(str) ==
    [i \in 1..Len(str) |->
        IF str[i] = InvalidByte THEN [esc |-> TRUE, ch |-> ReplacementChar]
        ELSE IF str[i] = "<" THEN [esc |-> TRUE, ch |-> str[i]]
        ELSE [esc |-> FALSE, ch |-> str[i]]]

\* a string read back: an escape stands for its character
DecodeString(toks) == [i \in 1..Len(toks) |-> toks[i].ch]

JString(str) == [kind |-> "string", toks |-> EncodeString(str), items |-> <<>>]

\* an int: a sign and its decimal digits
DigitChars == <<"0", "1", "2", "3", "4", "5", "6", "7", "8", "9">>

RECURSIVE Digits(_)
Digits(n) ==
    IF n < 10 THEN <<DigitChars[n + 1]>>
    ELSE Append(Digits(n \div 10), DigitChars[(n % 10) + 1])

DigitValue(ch) == CHOOSE d \in 0..9 : DigitChars[d + 1] = ch

RECURSIVE FromDigits(_)
FromDigits(ds) ==
    IF Len(ds) = 0 THEN 0
    ELSE 10 * FromDigits(SubSeq(ds, 1, Len(ds) - 1)) + DigitValue(ds[Len(ds)])

JNumber(n) ==
    [kind |-> "number",
     toks |-> IF n < 0 THEN <<"-">> \o Digits(-n) ELSE Digits(n),
     items |-> <<>>]

DecodeNumber(v) ==
    IF v.kind # "number" THEN 0
    ELSE IF v.toks[1] = "-" THEN -FromDigits(Tail(v.toks))
    ELSE FromDigits(v.toks)

\* a []string: null for a nil slice, else the array of its strings
NilSlice == [nil |-> TRUE, val |-> <<>>]
Slice(strs) == [nil |-> FALSE, val |-> strs]

JStringSlice(sl) ==
    IF sl.nil THEN JNull
    ELSE [kind |-> "array", toks |-> <<>>,
          items |-> [i \in 1..Len(sl.val) |-> EncodeString(sl.val[i])]]

DecodeStringSlice(v) ==
    IF v.kind = "array"
    THEN Slice([i \in 1..Len(v.items) |-> DecodeString(v.items[i])])
    ELSE NilSlice

\* a member tagged omitempty is left out when its string is empty
OmitEmpty(str) == IF Len(str) = 0 THEN JAbsent ELSE JString(str)

\* a string member read back: the zero value when the member is absent
StringMember(v) == IF v.kind = "string" THEN DecodeString(v.toks) ELSE <<>>

\* ---- the messages
NoMessage == [kind |-> "none"]

ExecRequests ==
    [kind : {"request"},
     Type : Strs,
     Command : {NilSlice, Slice(<<>>)} \cup {Slice(<<str>>) : str \in Strs},
     Workdir : Strs]

ExecResponses ==
    [kind : {"response"},
     Stdout : Strs,
     Stderr : Strs,
     ExitCode : -1..MaxExitStatus,
     Error : Strs]

\* json.NewEncoder(w).Encode(req)
EncodeRequest(req) ==
    [kind |-> "request",
     type |-> JString(req.Type),
     command |-> JStringSlice(req.Command),
     workdir |-> OmitEmpty(req.Workdir)]

\* json.NewDecoder(r).Decode(&req)
DecodeRequest(w) ==
    [kind |-> "request",
     Type |-> StringMember(w.type),
     Command |-> DecodeStringSlice(w.command),
     Workdir |-> StringMember(w.workdir)]

\* json.NewEncoder(w).Encode(resp)
EncodeResponse(resp) ==
    [kind |-> "response",
     stdout |-> JString(resp.Stdout),
     stderr |-> JString(resp.Stderr),
     exit_code |-> JNumber(resp.ExitCode),
     error |-> OmitEmpty(resp.Error)]

\* json.NewDecoder(r).Decode(&resp)
DecodeResponse(w) ==
    [kind |-> "response",
     Stdout |-> StringMember(w.stdout),
     Stderr |-> StringMember(w.stderr),
     ExitCode |-> DecodeNumber(w.exit_code),
     Error |-> StringMember(w.error)]

WriteRequest ==
    /\ codecPc = "value"
    /\ codecMsg.kind = "request"
    /\ codecWire' = EncodeRequest(codecMsg)
    /\ codecPc' = "wire"
    /\ UNCHANGED <<codecMsg, codecOut>>
    /\ UNCHANGED <<retryVars, daemonVars, localVars, targetVars, toolVars>>

ReadRequest ==
    /\ codecPc = "wire"
    /\ codecWire.kind = "request"
    /\ codecOut' = DecodeRequest(codecWire)
    /\ codecPc' = "decoded"
    /\ UNCHANGED <<codecMsg, codecWire>>
    /\ UNCHANGED <<retryVars, daemonVars, localVars, targetVars, toolVars>>

WriteResponse ==
    /\ codecPc = "value"
    /\ codecMsg.kind = "response"
    /\ codecWire' = EncodeResponse(codecMsg)
    /\ codecPc' = "wire"
    /\ UNCHANGED <<codecMsg, codecOut>>
    /\ UNCHANGED <<retryVars, daemonVars, localVars, targetVars, toolVars>>

ReadResponse ==
    /\ codecPc = "wire"
    /\ codecWire.kind = "response"
    /\ codecOut' = DecodeResponse(codecWire)
    /\ codecPc' = "decoded"
    /\ UNCHANGED <<codecMsg, codecWire>>
    /\ UNCHANGED <<retryVars, daemonVars, localVars, targetVars, toolVars>>

\* ======================================================================
\* runLocal (cmd/local.go): the exec client inside the codespace
\* ======================================================================

\* what the daemon, or whatever else answers on the socket, can send back as
\* an ExecResponse
LocalReplies ==
    {ExecResult(o[1], o[2], code) :
        o \in Outputs \cup {<<"out", "">>}, code \in ExitStatuses}
        \cup {writeErrorResponse(msg, 1) :
                msg \in {"command not allowed", "command failed",
                         "failed to read request", "invalid request format"}}
        \cup {[writeErrorResponse("refused", 1) EXCEPT !.exit_code = 0]}

\* runLocal returns err: Execute returns it and main calls os.Exit(1)
LocalFails(msg) ==
    /\ localErr' = msg
    /\ localExit' = 1
    /\ localPc' = "exited"

\* os.Stat(socketPath): only a missing socket ends the command here
LocalStat(exists) ==
    /\ localPc = "stat"
    /\ IF exists
       THEN localPc' = "dial" /\ UNCHANGED <<localErr, localExit>>
       ELSE LocalFails("socket not found")
    /\ UNCHANGED <<localArgs, localSent, localReply>>
    /\ UNCHANGED <<retryVars, daemonVars, codecVars, targetVars, toolVars>>

\* net.DialTimeout("unix", socketPath, 5s)
LocalDial(ok) ==
    /\ localPc = "dial"
    /\ IF ok
       THEN localPc' = "post" /\ UNCHANGED <<localErr, localExit>>
       ELSE LocalFails("failed to connect to local daemon")
    /\ UNCHANGED <<localArgs, localSent, localReply>>
    /\ UNCHANGED <<retryVars, daemonVars, codecVars, targetVars, toolVars>>

\* client.Post: the request is written once; the call fails before the request
\* left, or after it left and no response came back, or returns the response
LocalPost(outcome) ==
    /\ localPc = "post"
    /\ localSent' = IF outcome = "unsent" THEN localSent ELSE localSent + 1
    /\ IF outcome = "response"
       THEN localPc' = "decode" /\ UNCHANGED <<localErr, localExit>>
       ELSE LocalFails("failed to send request")
    /\ UNCHANGED <<localArgs, localReply>>
    /\ UNCHANGED <<retryVars, daemonVars, codecVars, targetVars, toolVars>>

\* json.NewDecoder(resp.Body).Decode(&execResp)
LocalDecode(decodable, r) ==
    /\ localPc = "decode"
    /\ IF decodable
       THEN /\ localReply' = r
            /\ localPc' = "report"
            /\ UNCHANGED <<localErr, localExit>>
       ELSE LocalFails("failed to decode response") /\ UNCHANGED localReply
    /\ UNCHANGED <<localArgs, localSent>>
    /\ UNCHANGED <<retryVars, daemonVars, codecVars, targetVars, toolVars>>

\* the end of runLocal: os.Exit(ExitCode) for a reported error, the output,
\* os.Exit(ExitCode) for a nonzero code, else return nil
\* (variant without the final test of ExitCode)
LocalReportMutNoExitCodeTest ==
    /\ localPc = "report"
    /\ localExit' = IF localReply.error # "" THEN localReply.exit_code ELSE 0
    /\ localPc' = "exited"
    /\ UNCHANGED <<localArgs, localSent, localReply, localErr>>
    /\ UNCHANGED <<retryVars, daemonVars, codecVars, targetVars, toolVars>>
LocalReport ==
    /\ localPc = "report"
    /\ localExit' = IF localReply.error # "" THEN localReply.exit_code
                    ELSE IF localReply.exit_code # 0 THEN localReply.exit_code
                    ELSE 0
    /\ localPc' = "exited"
    /\ UNCHANGED <<localArgs, localSent, localReply, localErr>>
    /\ UNCHANGED <<retryVars, daemonVars, codecVars, targetVars, toolVars>>

runLocal ==
    \/ \E exists \in BOOLEAN : LocalStat(exists)
    \/ \E ok \in BOOLEAN : LocalDial(ok)
    \/ \E outcome \in {"unsent", "lost", "response"} : LocalPost(outcome)
    \/ \E decodable \in BOOLEAN, r \in LocalReplies : LocalDecode(decodable, r)
    \/ LocalReport

\* ======================================================================
\* runSSH and sshOnce (cmd/ssh.go), with the state package
\* ======================================================================

\* ---- codespace names and file contents, as sequences of characters
N_flag == <<"a">>
N_arg == <<"b">>
N_cur == <<"c">>

\* unicode.IsSpace, for the characters used here
IsSpace(ch) == ch \in {" ", "\n", "\t"}

\* strings.TrimSpace: leading and trailing white space is dropped
RECURSIVE TrimLeft(_)
TrimLeft(str) ==
    IF Len(str) > 0 /\ IsSpace(str[1]) THEN TrimLeft(Tail(str)) ELSE str

RECURSIVE TrimRight(_)
TrimRight(str) ==
    IF Len(str) > 0 /\ IsSpace(str[Len(str)])
    THEN TrimRight(SubSeq(str, 1, Len(str) - 1))
    ELSE str

TrimSpace(str) == TrimRight(TrimLeft(str))

\* ---- the state file
NoStateFile == [exists |-> FALSE, readable |-> TRUE, data |-> <<>>]
StateFileOf(data) == [exists |-> TRUE, readable |-> TRUE, data |-> data]
UnreadableStateFile == [exists |-> TRUE, readable |-> FALSE, data |-> <<>>]

\* state.Get: ErrNoCodespace for a missing file and for a file that holds
\* white space only, the error of os.ReadFile otherwise, else the trimmed text
Get(file) ==
    IF ~file.exists THEN [name |-> <<>>, err |-> "ErrNoCodespace"]
    ELSE IF ~file.readable THEN [name |-> <<>>, err |-> "read"]
    ELSE IF TrimSpace(file.data) = <<>>
    THEN [name |-> <<>>, err |-> "ErrNoCodespace"]
    ELSE [name |-> TrimSpace(file.data), err |-> "none"]

\* state.Set: the name and a newline replace the content of the file
Set(n) == StateFileOf(n \o <<"\n">>)

\* runSSH up to gh.GetCodespace: the flag, else the positional argument, else
\* state.Get()
\* (variant that prefers the positional argument to the flag)
ResolveTargetMutArgFirst ==
    /\ loopPc = "resolve"
    /\ LET explicit == IF Len(sshArgs) > 0 /\ sshArgs[1] # <<>> THEN sshArgs[1]
                       ELSE sshCodespace
           got == Get(stateFile)
       IN  IF explicit # <<>>
           THEN name' = explicit /\ loopPc' = "verify" /\ UNCHANGED result
           ELSE IF got.err = "none"
           THEN name' = got.name /\ loopPc' = "verify" /\ UNCHANGED result
           ELSE /\ name' = got.name
                /\ loopPc' = "done"
                /\ result' = IF got.err = "ErrNoCodespace" THEN "no_codespace"
                             ELSE "state_error"
    /\ UNCHANGED <<retries, attempts, sigChan, sigCount, runErr,
                   sshMaxRetries, sshRetryDelay, ports, portFwdCmd, fwdProc,
                   fwdSignals, ctxDone, blocked>>
    /\ UNCHANGED fwdHist
    /\ UNCHANGED <<sshCodespace, sshArgs, stateFile, useRetry>>
    /\ UNCHANGED <<daemonVars, codecVars, localVars, toolVars>>
ResolveTarget ==
    /\ loopPc = "resolve"
    /\ LET explicit == IF sshCodespace # <<>> THEN sshCodespace
                       ELSE IF Len(sshArgs) > 0 THEN sshArgs[1]
                       ELSE <<>>
           got == Get(stateFile)
       IN  IF explicit # <<>>
           THEN name' = explicit /\ loopPc' = "verify" /\ UNCHANGED result
           ELSE IF got.err = "none"
           THEN name' = got.name /\ loopPc' = "verify" /\ UNCHANGED result
           ELSE /\ name' = got.name
                /\ loopPc' = "done"
                /\ result' = IF got.err = "ErrNoCodespace" THEN "no_codespace"
                             ELSE "state_error"
    /\ UNCHANGED <<retries, attempts, sigChan, sigCount, runErr,
                   sshMaxRetries, sshRetryDelay, ports, portFwdCmd, fwdProc,
                   fwdSignals, ctxDone, blocked>>
    /\ UNCHANGED fwdHist
    /\ UNCHANGED <<sshCodespace, sshArgs, stateFile, useRetry>>
    /\ UNCHANGED <<daemonVars, codecVars, localVars, toolVars>>

\* the rest of runSSH: gh.GetCodespace(name), state.Set(name) whose failure is
\* only a warning, then sshWithRetry or sshOnce
VerifyCodespace(found, written) ==
    /\ loopPc = "verify"
    /\ IF found
       THEN /\ stateFile' = IF written THEN Set(name) ELSE stateFile
            /\ loopPc' = IF useRetry THEN "attempt" ELSE "once"
            /\ UNCHANGED result
       ELSE /\ loopPc' = "done"
            /\ result' = "codespace_not_found"
            /\ UNCHANGED stateFile
    /\ UNCHANGED <<retries, attempts, sigChan, sigCount, runErr,
                   sshMaxRetries, sshRetryDelay, ports, portFwdCmd, fwdProc,
                   fwdSignals, ctxDone, blocked>>
    /\ UNCHANGED fwdHist
    /\ UNCHANGED <<sshCodespace, sshArgs, name, useRetry>>
    /\ UNCHANGED <<daemonVars, codecVars, localVars, toolVars>>

runSSH ==
    \/ ResolveTarget
    \/ \E found, written \in BOOLEAN : VerifyCodespace(found, written)

\* sshOnce: a context, the forwarder, then cmd.Run() starts
OnceStart ==
    /\ loopPc = "once"
    /\ ctxDone' = FALSE
    /\ fwdSignals' = <<>>
    /\ startPortForwarding
    /\ attempts' = attempts + 1
    /\ loopPc' = "onceSession"
    /\ UNCHANGED <<retries, sigChan, sigCount, runErr, result,
                   sshMaxRetries, sshRetryDelay, ports, blocked>>
    /\ UNCHANGED fwdHist
    /\ UNCHANGED <<daemonVars, cliVars>>

\* sshOnce: cmd.Run() returns with exit status s and the deferred calls begin
\* (variant that cancels the context as soon as cmd.Run() returns)
OnceSessionExitMutCancelsFirst(s) ==
    /\ loopPc = "onceSession"
    /\ runErr' = s
    /\ ctxDone' = TRUE
    /\ loopPc' = "onceStop"
    /\ UNCHANGED <<retries, attempts, sigChan, sigCount, result,
                   sshMaxRetries, sshRetryDelay, ports, portFwdCmd, fwdProc,
                   fwdSignals, blocked>>
    /\ UNCHANGED fwdHist
    /\ UNCHANGED <<daemonVars, cliVars>>
OnceSessionExit(s) ==
    /\ loopPc = "onceSession"
    /\ runErr' = s
    /\ loopPc' = "onceStop"
    /\ UNCHANGED <<retries, attempts, sigChan, sigCount, result,
                   sshMaxRetries, sshRetryDelay, ports, portFwdCmd, fwdProc,
                   fwdSignals, ctxDone, blocked>>
    /\ UNCHANGED fwdHist
    /\ UNCHANGED <<daemonVars, cliVars>>

\* sshOnce returns: the deferred cancel() runs last
OnceReturn ==
    /\ ctxDone' = TRUE
    /\ loopPc' = "done"
    /\ result' = IF runErr = 0 THEN "session_ended" ELSE "session_failed"

\* the deferred stopPortForwarding, up to its select
OnceStopPortForwarding ==
    /\ loopPc = "onceStop"
    /\ IF portFwdCmd = "nil"
       THEN OnceReturn /\ UNCHANGED fwdSignals
       ELSE /\ loopPc' = "onceFwdwait"
            /\ fwdSignals' = Append(fwdSignals, "SIGTERM")
            /\ UNCHANGED <<ctxDone, result>>
    /\ UNCHANGED <<retries, attempts, sigChan, sigCount, runErr,
                   sshMaxRetries, sshRetryDelay, ports, portFwdCmd, fwdProc,
                   blocked>>
    /\ UNCHANGED fwdHist
    /\ UNCHANGED <<daemonVars, cliVars>>

\* the deferred stopPortForwarding: case <-done
OnceStopWaitDone ==
    /\ loopPc = "onceFwdwait"
    /\ fwdProc = "exited"
    /\ OnceReturn
    /\ UNCHANGED <<retries, attempts, sigChan, sigCount, runErr,
                   sshMaxRetries, sshRetryDelay, ports, portFwdCmd, fwdProc,
                   fwdSignals, blocked>>
    /\ UNCHANGED fwdHist
    /\ UNCHANGED <<daemonVars, cliVars>>

\* the deferred stopPortForwarding: case <-time.After(2s), then Kill()
OnceStopWaitTimeout ==
    /\ loopPc = "onceFwdwait"
    /\ fwdProc = "running"
    /\ fwdSignals' = Append(fwdSignals, "SIGKILL")
    /\ fwdProc' = "exited"
    /\ OnceReturn
    /\ timedOut' = TRUE
    /\ UNCHANGED <<retries, attempts, sigChan, sigCount, runErr,
                   sshMaxRetries, sshRetryDelay, ports, portFwdCmd, blocked,
                   orphans>>
    /\ UNCHANGED <<daemonVars, cliVars>>

sshOnce ==
    \/ OnceStart
    \/ \E s \in ExitStatuses : OnceSessionExit(s)
    \/ OnceStopPortForwarding
    \/ OnceStopWaitDone
    \/ OnceStopWaitTimeout

\* ======================================================================
\* the state package on its own: Set, Clear, Get
\* ======================================================================

\* state.Clear: os.Remove, whose "does not exist" error is not an error
\* (variant that returns the error of os.Remove for a missing file)
ClearMutFailsOnMissing(file) ==
    IF file.exists THEN [file |-> NoStateFile, err |-> "none"]
    ELSE [file |-> file, err |-> "remove"]
Clear(file) ==
    IF file.exists THEN [file |-> NoStateFile, err |-> "none"]
    ELSE [file |-> file, err |-> "none"]

\* an operation is made and logged with what it returned
StoreDoes(entry) ==
    /\ Len(storeLog) < MaxStoreOps
    /\ storeLast' = entry
    /\ storeLog' = Append(storeLog, entry)

StoreSet(n) ==
    /\ StoreDoes([op |-> "Set", name |-> n, err |-> "none"])
    /\ stateFile' = Set(n)
    /\ UNCHANGED <<sshCodespace, sshArgs, name, useRetry>>
    /\ UNCHANGED <<retryVars, daemonVars, codecVars, localVars, deleteVars>>

StoreClear ==
    /\ StoreDoes([op |-> "Clear", name |-> <<>>, err |-> Clear(stateFile).err])
    /\ stateFile' = Clear(stateFile).file
    /\ UNCHANGED <<sshCodespace, sshArgs, name, useRetry>>
    /\ UNCHANGED <<retryVars, daemonVars, codecVars, localVars, deleteVars>>

StoreGet ==
    /\ StoreDoes([op |-> "Get", name |-> Get(stateFile).name,
                  err |-> Get(stateFile).err])
    /\ UNCHANGED stateFile
    /\ UNCHANGED <<sshCodespace, sshArgs, name, useRetry>>
    /\ UNCHANGED <<retryVars, daemonVars, codecVars, localVars, deleteVars>>

\* ======================================================================
\* runDelete (cmd/delete.go)
\* ======================================================================

\* runDelete returns
DeleteReturns(msg) ==
    /\ deletePc' = "done"
    /\ deleteErr' = msg

\* runDelete up to its loop: toDelete from --all, --list, the arguments or the
\* current selection, the confirmation, then currentCS from state.Get()
DeleteCollect(mode, list, force, confirmed) ==
    /\ deletePc = "start"
    /\ LET got == Get(stateFile)
           chosen == IF mode = "current" THEN <<got.name>> ELSE list
       IN  IF mode = "all" /\ ~force
           THEN DeleteReturns("--all requires --force flag")
                   /\ UNCHANGED <<toDelete, currentCS>>
           ELSE IF mode = "unlisted"
           THEN DeleteReturns("listing failed") /\ UNCHANGED <<toDelete, currentCS>>
           ELSE IF mode = "current" /\ got.err = "ErrNoCodespace"
           THEN DeleteReturns("no codespace selected")
                   /\ UNCHANGED <<toDelete, currentCS>>
           ELSE IF mode = "current" /\ got.err # "none"
           THEN DeleteReturns("read") /\ UNCHANGED <<toDelete, currentCS>>
           ELSE /\ mode = "args" => Len(list) > 0
                /\ toDelete' = chosen
                /\ IF Len(chosen) = 0 \/ (~force /\ ~confirmed)
                   THEN DeleteReturns("") /\ UNCHANGED currentCS
                   ELSE /\ currentCS' = got.name
                        /\ deletePc' = "loop"
                        /\ UNCHANGED deleteErr
    /\ UNCHANGED <<deleteIdx, failed>>
    /\ UNCHANGED <<storeVars, targetVars>>
    /\ UNCHANGED <<retryVars, daemonVars, codecVars, localVars>>

\* one turn of the loop: deleteCodespace(name), then failed = append(failed,
\* name), or state.Clear() when the name is currentCS
\* (variant that clears the selection whether or not the deletion succeeded)
DeleteOneMutClearsOnFailure(ok) ==
    /\ deletePc = "loop"
    /\ deleteIdx < Len(toDelete)
    /\ deleteIdx' = deleteIdx + 1
    /\ failed' = IF ok THEN failed ELSE Append(failed, toDelete[deleteIdx + 1])
    /\ stateFile' = IF toDelete[deleteIdx + 1] = currentCS
                    THEN Clear(stateFile).file
                    ELSE stateFile
    /\ UNCHANGED <<deletePc, toDelete, currentCS, deleteErr>>
    /\ UNCHANGED <<sshCodespace, sshArgs, name, useRetry>>
    /\ UNCHANGED storeVars
    /\ UNCHANGED <<retryVars, daemonVars, codecVars, localVars>>
DeleteOne(ok) ==
    /\ deletePc = "loop"
    /\ deleteIdx < Len(toDelete)
    /\ deleteIdx' = deleteIdx + 1
    /\ failed' = IF ok THEN failed ELSE Append(failed, toDelete[deleteIdx + 1])
    /\ stateFile' = IF ok /\ toDelete[deleteIdx + 1] = currentCS
                    THEN Clear(stateFile).file
                    ELSE stateFile
    /\ UNCHANGED <<deletePc, toDelete, currentCS, deleteErr>>
    /\ UNCHANGED <<sshCodespace, sshArgs, name, useRetry>>
    /\ UNCHANGED storeVars
    /\ UNCHANGED <<retryVars, daemonVars, codecVars, localVars>>

\* after the loop: an error when a deletion failed
DeleteFinish ==
    /\ deletePc = "loop"
    /\ deleteIdx = Len(toDelete)
    /\ DeleteReturns(IF Len(failed) > 0 THEN "failed to delete" ELSE "")
    /\ UNCHANGED <<toDelete, currentCS, deleteIdx, failed>>
    /\ UNCHANGED <<storeVars, targetVars>>
    /\ UNCHANGED <<retryVars, daemonVars, codecVars, localVars>>

runDelete ==
    \/ \E mode \in {"all", "list", "unlisted", "args", "current"},
          \* arguments, the picker's selection, or every codespace
          list \in UNION {[1..n -> {N_arg, N_cur, <<>>}] :
                              n \in 0..MaxDeleteNames},
          force, confirmed \in BOOLEAN :
            DeleteCollect(mode, list, force, confirmed)
    \/ \E ok \in BOOLEAN : DeleteOne(ok)
    \/ DeleteFinish

\* ======================================================================
\* specifications
\* ======================================================================

CodecQuiet ==
    /\ codecPc = "idle"
    /\ codecMsg = NoMessage
    /\ codecWire = NoMessage
    /\ codecOut = NoMessage

LocalQuiet ==
    /\ localPc = "idle"
    /\ localArgs = <<>>
    /\ localSent = 0
    /\ localReply = NoResponse
    /\ localErr = ""
    /\ localExit = 0

TargetQuiet ==
    /\ sshCodespace = <<>>
    /\ sshArgs = <<>>
    /\ stateFile = NoStateFile
    /\ name = <<>>
    /\ useRetry = FALSE

StoreQuiet ==
    /\ storeLast = [op |-> "none", name |-> <<>>, err |-> "none"]
    /\ storeLog = <<>>

DeleteQuiet ==
    /\ deletePc = "idle"
    /\ toDelete = <<>>
    /\ currentCS = <<>>
    /\ deleteIdx = 0
    /\ failed = <<>>
    /\ deleteErr = ""

ToolQuiet == StoreQuiet /\ DeleteQuiet

CliQuiet == CodecQuiet /\ LocalQuiet /\ TargetQuiet /\ ToolQuiet

DaemonQuiet ==
    /\ srvPc = [d \in Daemons |-> "idle"]
    /\ listenErr = [d \in Daemons |-> "none"]
    /\ listening = [d \in Daemons |-> FALSE]
    /\ ctxCancelled = [d \in Daemons |-> FALSE]
    /\ binds = [d \in Daemons |-> 0]
    /\ removes = [d \in Daemons |-> 0]
    /\ conns = [c \in Conns |-> IdleConn]

RetryQuiet ==
    /\ loopPc = "done"
    /\ retries = 0
    /\ attempts = 0
    /\ sigChan = 0
    /\ sigCount = 0
    /\ runErr = 0
    /\ result = "none"
    /\ sshMaxRetries = 0
    /\ sshRetryDelay = DefaultRetryDelay
    /\ ports = <<>>
    /\ portFwdCmd = "nil"
    /\ fwdProc = "none"
    /\ fwdSignals = <<>>
    /\ ctxDone = FALSE
    /\ blocked = FALSE
    /\ orphans = 0
    /\ timedOut = FALSE

RetryInit ==
    /\ loopPc = "attempt"
    /\ retries = 0
    /\ attempts = 0
    /\ sigChan = 0
    /\ sigCount = 0
    /\ runErr = 0
    /\ result = "none"
    /\ sshMaxRetries \in 0..MaxRetriesFlag
    /\ sshRetryDelay \in {0, DefaultRetryDelay}
    /\ ports \in {<<>>, <<3000>>}
    /\ portFwdCmd = "nil"
    /\ fwdProc = "none"
    /\ fwdSignals = <<>>
    /\ ctxDone = FALSE
    /\ blocked = FALSE
    /\ orphans = 0
    /\ timedOut = FALSE
    /\ sockFile = NoFile
    /\ DaemonQuiet
    /\ CliQuiet

sshWithRetry ==
    \/ StartAttempt
    \/ \E s \in ExitStatuses : SessionExit(s)
    \/ StopPortForwarding
    \/ StopWaitDone
    \/ StopWaitTimeout
    \/ PostExitCheck
    \/ EnterWait

RetryNext ==
    \/ sshWithRetry
    \/ TimerFires
    \/ SignalDelivered
    \/ ForwarderExits
    \/ ContextKill

RetrySpec == RetryInit /\ [][RetryNext]_vars

\* the loop keeps running: every session process exits, every forwarder stop
\* completes and the delay timer fires
RetryLiveSpec ==
    /\ RetryInit
    /\ [][RetryNext]_vars
    /\ WF_vars(sshWithRetry)
    /\ WF_vars(TimerFires)

DaemonInit ==
    /\ sockFile \in {NoFile, StaleFile}
    /\ DaemonQuiet
    /\ RetryQuiet
    /\ CliQuiet

\* the daemons of D started against the one socket path
Lifecycle(D) ==
    \/ \E d \in D : ListenBind(d)
    \/ \E d \in D : ListenProbe(d)
    \/ \E d \in D : ListenRemoveStale(d)
    \/ \E d \in D : ListenRebind(d)
    \/ \E d \in D : OsSignal(d)
    \/ \E d \in D : ServeError(d)
    \/ \E d \in D : ServeShutdown(d)
    \/ \E d \in D : ServeReturn(d)
    \/ \E d \in D : ListenCleanup(d)

\* clients using the connections of C to send the bodies of B, and the handlers
\* answering them
Requests(C, B) ==
    \/ \E c \in C, b \in B : Dial(c, b)
    \/ \E c \in C : ServeHTTP(c)
    \/ \E c \in C : HandlerReturn(c)
    \/ \E c \in C : ClientClose(c)

\* the commands the handlers launched
Children(C) ==
    \E c \in C, code \in ExitStatuses, o \in Outputs : CommandExits(c, code, o)

\* daemons racing for the socket path, with stop and status requests
Spec ==
    DaemonInit /\ [][Lifecycle(Daemons) \/ Requests(1..RaceConns, LifecycleBodies)]_vars

\* one daemon serving every kind of request
ExecSpec ==
    DaemonInit /\ [][Lifecycle({1}) \/ Requests(Conns, Bodies) \/ Children(Conns)]_vars

\* one daemon answering every kind of body
HandlerSpec ==
    DaemonInit /\ [][Lifecycle({1}) \/ Requests(1..RaceConns, HandlerBodies)
                                    \/ Children(1..RaceConns)]_vars

\* one daemon shut down while it serves stop and exec requests; the daemon
\* process keeps taking its own steps, clients and children need not
ShutdownSpec ==
    /\ DaemonInit
    /\ [][Lifecycle({1}) \/ Requests(1..RaceConns, ShutdownBodies)
                         \/ Children(1..RaceConns)]_vars
    /\ WF_vars(Lifecycle({1}))

\* one message, a request or a response, written and read back
CodecInit ==
    /\ codecPc = "value"
    /\ codecMsg \in ExecRequests \cup ExecResponses
    /\ codecWire = NoMessage
    /\ codecOut = NoMessage
    /\ LocalQuiet
    /\ TargetQuiet
    /\ ToolQuiet
    /\ sockFile = NoFile
    /\ DaemonQuiet
    /\ RetryQuiet

CodecSpec ==
    CodecInit /\ [][WriteRequest \/ ReadRequest \/ WriteResponse \/ ReadResponse]_vars

\* one invocation of gh csd local with at least one argument
LocalInit ==
    /\ localPc = "stat"
    /\ localArgs \in {<<S_gh>>, <<S_gh, S_arg>>, <<S_abs_gh>>, <<S_ghh>>}
    /\ localSent = 0
    /\ localReply = NoResponse
    /\ localErr = ""
    /\ localExit = 0
    /\ CodecQuiet
    /\ TargetQuiet
    /\ ToolQuiet
    /\ sockFile = NoFile
    /\ DaemonQuiet
    /\ RetryQuiet

LocalSpec == LocalInit /\ [][runLocal]_vars

\* one invocation of gh csd ssh: the flag, at most one positional argument,
\* and whatever the state file holds
RunSSHInit ==
    /\ loopPc = "resolve"
    /\ sshCodespace \in {<<>>, N_flag}
    /\ sshArgs \in {<<>>, <<<<>>>>, <<N_arg>>}
    /\ stateFile \in {NoStateFile, UnreadableStateFile, StateFileOf(<<>>),
                      StateFileOf(<<" ", "\n">>), StateFileOf(N_cur \o <<"\n">>),
                      StateFileOf(<<" ">> \o N_cur \o <<"\n">>)}
    /\ name = <<>>
    /\ useRetry \in BOOLEAN
    /\ retries = 0
    /\ attempts = 0
    /\ sigChan = 0
    /\ sigCount = 0
    /\ runErr = 0
    /\ result = "none"
    /\ sshMaxRetries = 2
    /\ sshRetryDelay = DefaultRetryDelay
    /\ ports = <<3000>>
    /\ portFwdCmd = "nil"
    /\ fwdProc = "none"
    /\ fwdSignals = <<>>
    /\ ctxDone = FALSE
    /\ blocked = FALSE
    /\ orphans = 0
    /\ timedOut = FALSE
    /\ sockFile = NoFile
    /\ DaemonQuiet
    /\ CodecQuiet
    /\ LocalQuiet
    /\ ToolQuiet

\* signal.Notify is called by sshWithRetry only
RunSSHNext ==
    \/ runSSH
    \/ sshOnce
    \/ sshWithRetry
    \/ TimerFires
    \/ useRetry /\ loopPc \notin {"resolve", "verify"} /\ SignalDelivered
    \/ ForwarderExits
    \/ ContextKill

RunSSHSpec == RunSSHInit /\ [][RunSSHNext]_vars

\* the store, empty at first, under any sequence of its operations
StoreInit ==
    /\ stateFile \in {NoStateFile, StateFileOf(<<>>)}
    /\ StoreQuiet
    /\ DeleteQuiet
    /\ sshCodespace = <<>>
    /\ sshArgs = <<>>
    /\ name = <<>>
    /\ useRetry = FALSE
    /\ CodecQuiet
    /\ LocalQuiet
    /\ sockFile = NoFile
    /\ DaemonQuiet
    /\ RetryQuiet

\* the names the commands hand to state.Set are names of existing codespaces
StoreSpec ==
    /\ StoreInit
    /\ [][(\E n \in {N_flag, N_arg, N_cur} : StoreSet(n)) \/ StoreClear
             \/ StoreGet]_vars

\* one invocation of gh csd delete, whatever the state file holds
DeleteInit ==
    /\ deletePc = "start"
    /\ toDelete = <<>>
    /\ currentCS = <<>>
    /\ deleteIdx = 0
    /\ failed = <<>>
    /\ deleteErr = ""
    /\ stateFile \in {NoStateFile, UnreadableStateFile, StateFileOf(<<"\n">>),
                      StateFileOf(N_cur \o <<"\n">>),
                      StateFileOf(<<" ">> \o N_cur \o <<"\n">>)}
    /\ StoreQuiet
    /\ sshCodespace = <<>>
    /\ sshArgs = <<>>
    /\ name = <<>>
    /\ useRetry = FALSE
    /\ CodecQuiet
    /\ LocalQuiet
    /\ sockFile = NoFile
    /\ DaemonQuiet
    /\ RetryQuiet

DeleteSpec == DeleteInit /\ [][runDelete]_vars

\* ======================================================================
\* properties
\* ======================================================================

\* the final path component of a command name is on the allow-list {"gh"}
OnAllowList(cmd) == Base(cmd) = S_gh

\* the body of connection c decodes to an exec request with a command name
IsExecOf(c) ==
    /\ conns[c].body.readable
    /\ Unmarshal(conns[c].body).ok
    /\ Unmarshal(conns[c].body).req.Type = "exec"
    /\ Len(Unmarshal(conns[c].body).req.Command) > 0

CommandName(c) == Unmarshal(conns[c].body).req.Command[1]

\* C1: an exec request whose command name has a final path component other
\* than "gh" is answered with a non-empty error and a nonzero exit_code and no
\* process is ever launched for it; every launched process belongs to an exec
\* request whose command name is on the allow-list, whatever the other
\* connections are doing and whatever the kind and fields of the request.
C1_OnlyAllowListedCommandsLaunch ==
    \A c \in Conns :
        /\ conns[c].proc.started => IsExecOf(c) /\ OnAllowList(CommandName(c))
        /\ conns[c].st = "running" => conns[c].proc.started
        /\ (IsExecOf(c) /\ ~OnAllowList(CommandName(c))) =>
              /\ conns[c].st \in {"sent", "replied"}
              /\ conns[c].st = "replied" =>
                    /\ conns[c].resp.error # ""
                    /\ conns[c].resp.exit_code # 0

\* a disallowed command was refused on one connection while an allowed one runs
\* on another
C1_Witness ==
    \E c1, c2 \in Conns :
        /\ c1 # c2
        /\ IsExecOf(c1) /\ ~OnAllowList(CommandName(c1))
        /\ conns[c1].st = "replied" /\ conns[c1].resp.error = "command not allowed"
        /\ conns[c2].st = "running" /\ conns[c2].proc.path = S_gh

\* C2: at no time do two daemons hold a listening socket bound to the socket
\* path, also when they start together against a stale path.
C2_AtMostOneListening ==
    Cardinality({d \in Daemons : listening[d]}) <= 1

\* a live daemon's socket answers a connection made to the socket path
LiveDaemonAtPath ==
    /\ sockFile.exists
    /\ sockFile.owner \in Daemons
    /\ listening[sockFile.owner]

\* C3: when the path exists and the probe does not connect, Listen removes the
\* path and binds a second time, once; a second bind that succeeds makes the
\* daemon listen, one that fails ends Listen with the bind error; no third bind.
C3_StaleSocketOneRetry ==
    /\ [](\A d \in Daemons :
            /\ binds[d] <= 2 /\ removes[d] <= 1
            /\ srvPc[d] = "rebind" => binds[d] = 1 /\ removes[d] = 1
            /\ binds[d] = 2 =>
                  /\ removes[d] = 1
                  /\ srvPc[d] \notin {"idle", "probe", "remove", "rebind"})
    /\ [][\A d \in Daemons :
            /\ (srvPc[d] = "probe" /\ srvPc'[d] # "probe" /\ ~LiveDaemonAtPath) =>
                  srvPc'[d] = "remove"
            /\ srvPc[d] = "remove" /\ srvPc'[d] # "remove" =>
                  sockFile' = NoFile /\ srvPc'[d] = "rebind"
            /\ srvPc[d] = "rebind" /\ srvPc'[d] # "rebind" =>
                  /\ binds'[d] = 2
                  /\ \/ /\ srvPc'[d] = "serving" /\ listening'[d]
                        /\ sockFile' = FileOf(d)
                     \/ /\ srvPc'[d] = "exited" /\ ~listening'[d]
                        /\ listenErr'[d] = "failed to listen on socket"]_vars

\* one daemon recovered the stale path and listens, another one's second bind
\* failed
C3_Witness ==
    \E d1, d2 \in Daemons :
        /\ binds[d1] = 2 /\ removes[d1] = 1 /\ listening[d1]
        /\ binds[d2] = 2 /\ removes[d2] = 1 /\ srvPc[d2] = "exited"
        /\ listenErr[d2] = "failed to listen on socket"

\* C4: when a live daemon accepts the probe connection, Listen returns "server
\* already running", has not listened and does not listen, removes nothing and
\* makes no second bind.
C4_LiveDaemonMeansAlreadyRunning ==
    /\ [](\A d \in Daemons :
            listenErr[d] = "server already running" =>
                /\ srvPc[d] = "exited" /\ ~listening[d]
                /\ binds[d] = 1 /\ removes[d] = 0)
    /\ [][\A d \in Daemons :
            (srvPc[d] = "probe" /\ srvPc'[d] # "probe" /\ LiveDaemonAtPath) =>
                /\ srvPc'[d] = "exited"
                /\ listenErr'[d] = "server already running"
                /\ sockFile' = sockFile
                /\ binds'[d] = binds[d]]_vars

\* a daemon was refused while the other one listens
C4_Witness ==
    \E d1, d2 \in Daemons :
        /\ listenErr[d1] = "server already running"
        /\ listening[d2] /\ sockFile = FileOf(d2)

\* sshWithRetry returned the max-retries error
GaveUp == Returned /\ result = "max_retries"

\* C5: with --max-retries N > 0, every session exiting nonzero and no signal,
\* the loop gives up after exactly N re-attempts, that is after N + 1 sessions.
C5_ExactlyMaxRetriesReattempts ==
    (GaveUp /\ sigCount = 0) => attempts - 1 = sshMaxRetries

\* C6: a session that exits nonzero after a signal was received is classified
\* as user-cancelled: the loop returns nil with "Disconnected.", retries is not
\* incremented and no further session starts, even at the retry bound.
C6_SignalBeforeCheckCancels ==
    [][/\ (loopPc = "classify" /\ loopPc' # "classify" /\ runErr # 0 /\ sigCount > 0) =>
              /\ Returned'
              /\ result' = "disconnected"
              /\ retries' = retries
              /\ attempts' = attempts
       /\ Returned => (Returned' /\ attempts' = attempts /\ result' = result)]_vars

\* a signalled nonzero exit at the retry bound ended as "Disconnected."
C6_Witness ==
    /\ Returned /\ result = "disconnected" /\ runErr # 0
    /\ sshMaxRetries > 0 /\ retries + 1 >= sshMaxRetries

\* C7: a signal delivered while the loop is blocked in the inter-retry wait ends
\* the loop at once with "Reconnection cancelled.", before the delay elapses
\* and without another session.
C7_SignalDuringWaitCancels ==
    [][/\ (loopPc = "wait" /\ sigCount' # sigCount) =>
              /\ Returned'
              /\ result' = "reconnection_cancelled"
              /\ attempts' = attempts
              /\ retries' = retries
       /\ Returned => (Returned' /\ attempts' = attempts /\ result' = result)]_vars

\* the loop blocked in the wait and was cancelled there
C7_Witness ==
    Returned /\ result = "reconnection_cancelled" /\ blocked /\ sshRetryDelay > 0

\* C8: once a signal has been delivered to the running loop, no new session is
\* started (stated for a loop whose first session has started and whose retry
\* delay is positive).
C8_NoAttemptAfterSignal ==
    [][(sigCount > 0 /\ attempts > 0 /\ sshRetryDelay > 0) =>
           attempts' = attempts]_vars

\* C9: a session that exits with status 0 ends the loop with "SSH session ended
\* normally." and nil: no retry, no wait, retries unchanged, however many
\* sessions failed before.
C9_CleanExitEndsLoop ==
    [][/\ (loopPc = "classify" /\ loopPc' # "classify" /\ runErr = 0) =>
              /\ Returned'
              /\ result' = "ended_normally"
              /\ retries' = retries
              /\ attempts' = attempts
       /\ Returned => (Returned' /\ attempts' = attempts /\ result' = result)]_vars

\* a clean exit after failed sessions, with a signal pending
C9_Witness ==
    Returned /\ result = "ended_normally" /\ retries > 0 /\ sigChan > 0

\* C10: with --max-retries 0 the loop never gives up: it returns only after a
\* session exited 0 or after a signal.
C10_UnlimitedNeverGivesUp ==
    sshMaxRetries = 0 =>
        /\ result # "max_retries"
        /\ Returned =>
              \/ result = "ended_normally" /\ runErr = 0
              \/ result \in {"disconnected", "reconnection_cancelled"} /\ sigCount > 0

\* more sessions failed than any tried bound allows, and the loop goes on
C10_Witness ==
    /\ sshMaxRetries = 0 /\ retries >= MaxRetriesFlag /\ attempts > MaxRetriesFlag
    /\ loopPc = "session"

\* the forwarder of the current attempt is alive
ForwarderAlive == fwdProc = "running"

\* the outcome of the current attempt has been classified (or is being
\* classified): the loop is past stopPortForwarding
PastStop ==
    \/ loopPc \in {"classify", "select", "wait", "done"}
    \/ loopPc = "attempt" /\ attempts > 0

\* C11: for every attempt and every outcome (clean exit, cancelled, retried,
\* bound exhausted) the forwarder started for the attempt is not running any
\* more once the loop classifies the attempt's outcome.
C11_ForwarderStoppedAtClassification ==
    PastStop => ~ForwarderAlive

\* the loop gave up after its last forwarder ignored SIGTERM and was killed
C11_Witness ==
    /\ Returned /\ result = "max_retries"
    /\ fwdSignals = <<"SIGTERM", "SIGKILL">> /\ fwdProc = "exited"

\* C12: the forwarder is sent SIGKILL only after it was sent SIGTERM and the
\* grace period of stopPortForwarding has run out; it is never killed before.
C12_KillOnlyAfterGracefulStop ==
    (\E i \in 1..Len(fwdSignals) : fwdSignals[i] = "SIGKILL") =>
        /\ fwdSignals = <<"SIGTERM", "SIGKILL">>
        /\ PastStop

\* C13: at most one forwarder process is alive at any time: the one of attempt
\* k has terminated when the one of attempt k+1 is started, also after a
\* grace period that timed out.
C13_AtMostOneForwarderAlive ==
    orphans + (IF ForwarderAlive THEN 1 ELSE 0) <= 1

\* a later attempt's forwarder runs after an earlier one had to be killed at the
\* end of its grace period
C13_Witness ==
    attempts >= 2 /\ ForwarderAlive /\ timedOut /\ loopPc = "session"

\* the stop acknowledgement of connection c is written but not sent yet
AckPending(c) == conns[c].st = "buffered" /\ conns[c].resp.status = "stopping"

\* C14: a stop request is acknowledged before shutdown begins: the daemon does
\* not leave the listening state (nor close the connection) while the
\* acknowledgement of the stop request has not been sent.
C14_AckSentBeforeShutdownBegins ==
    [][\A d \in Daemons :
          (listening[d] /\ ~listening'[d]) =>
              ~\E c \in Conns : conns[c].srv = d /\ AckPending(c)]_vars

\* the handler of connection c is waiting for the command it launched
CommandPending(c) == conns[c].st = "running" /\ conns[c].proc.started

\* C16: Serve returns only after shutdown was requested, and when it returns no
\* handler of a launched command is still pending: handlers that outlive the
\* grace period were terminated first.
C16_NoHandlerPendingWhenServeReturns ==
    [][\A d \in Daemons :
          (srvPc[d] = "shutdown" /\ srvPc'[d] = "cleanup") =>
              /\ ctxCancelled[d]
              /\ ~\E c \in Conns : conns[c].srv = d /\ CommandPending(c)]_vars

\* C15: after a stop request or a signal the daemon eventually reaches the
\* stopped state and stays there, and from then on nothing answers at the
\* socket path and no connection to the daemon exists; also when an exec
\* handler is running when the shutdown starts.
C15_StopLeadsToStopped ==
    /\ \A d \in Daemons : ctxCancelled[d] ~> (srvPc[d] = "exited")
    /\ [](\A d \in Daemons :
            srvPc[d] = "exited" =>
                /\ ~listening[d]
                /\ ~(sockFile.exists /\ sockFile.owner = d)
                /\ \A c \in Conns : conns[c].srv # d)
    /\ [][\A d \in Daemons : srvPc[d] = "exited" => srvPc'[d] = "exited"]_vars

\* the daemon stopped although a handler outlived the shutdown timeout
C15_Witness ==
    /\ srvPc[1] = "exited" /\ ctxCancelled[1]
    /\ listenErr[1] = "context deadline exceeded"
    /\ ~sockFile.exists

\* C17: when Listen returns in a daemon that had bound the socket (after a stop
\* request, a signal or a serve error), the socket path does not exist on disk.
C17_SocketPathGoneAfterListen ==
    [][\A d \in Daemons :
          (srvPc[d] \in {"serving", "shutdown", "cleanup"} /\ srvPc'[d] = "exited") =>
              ~sockFile'.exists]_vars

\* a daemon that recovered a stale path has shut down cleanly and the path is gone
C17_Witness ==
    \E d \in Daemons :
        /\ srvPc[d] = "exited" /\ listenErr[d] = "nil"
        /\ binds[d] = 2 /\ removes[d] = 1
        /\ ~sockFile.exists

\* the body of connection c decodes to a stop request
IsStopOf(c) ==
    /\ conns[c].body.readable
    /\ Unmarshal(conns[c].body).ok
    /\ Unmarshal(conns[c].body).req.Type = "stop"

\* the handler of connection c takes a step
HandlerStep(c) ==
    /\ conns[c].st \in {"sent", "running"}
    /\ conns'[c] # conns[c]
    /\ conns'[c].st # "idle"

\* C18: no request other than stop changes the daemon's lifecycle state: the
\* handling of an undecodable body, an empty or disallowed command, an unknown
\* kind, a launch failure or a child's exit leaves the daemon as it was (still
\* listening when it was), and the serve context is cancelled by a handler only
\* when the request is a stop request.
C18_OnlyStopChangesLifecycle ==
    [][\A c \in Conns :
          (HandlerStep(c) /\ ~IsStopOf(c)) =>
              UNCHANGED <<srvPc, listening, ctxCancelled, sockFile, listenErr>>]_vars

\* after a nonzero child exit and an undecodable body the daemon listens and
\* serves another request
C18_Witness ==
    \E c1, c2 \in Conns :
        /\ conns[c1].st = "replied" /\ conns[c1].proc.started
        /\ conns[c1].resp.exit_code # 0 /\ conns[c1].resp.error = ""
        /\ conns[c2].st = "replied" /\ conns[c2].resp.error = "invalid request format"
        /\ listening[1] /\ srvPc[1] = "serving" /\ ~ctxCancelled[1]

\* the lifecycle state of daemon d: 0 not-listening, 1 listening,
\* 2 shutting-down, 3 stopped
Phase(d) ==
    CASE srvPc[d] \in {"idle", "probe", "remove", "rebind"} -> 0
      [] srvPc[d] = "serving" -> 1
      [] srvPc[d] \in {"shutdown", "cleanup"} -> 2
      [] OTHER -> 3

\* C19: the lifecycle only moves forward through not-listening, listening,
\* shutting-down, stopped: listening is entered only from not-listening by a
\* bind that succeeded, the daemon holds its listener exactly while listening,
\* and a shutdown trigger that arrives when shutdown was already requested
\* changes nothing.
C19_LifecycleMovesForward ==
    /\ [](\A d \in Daemons : listening[d] <=> Phase(d) = 1)
    /\ [][\A d \in Daemons :
            /\ Phase(d)' >= Phase(d)
            /\ (Phase(d)' = 1 /\ Phase(d) # 1) =>
                  /\ Phase(d) = 0
                  /\ binds'[d] = binds[d] + 1
                  /\ sockFile' = FileOf(d)
            /\ (ctxCancelled[d] /\ \E c \in Conns :
                    conns[c].srv = d /\ conns[c].st = "sent" /\ AckPending(c)') =>
                  UNCHANGED <<srvPc, listening, ctxCancelled, sockFile>>]_vars

\* two stop requests were acknowledged by a daemon that is shutting down
C19_Witness ==
    \E c1, c2 \in Conns :
        /\ c1 # c2
        /\ conns[c1].srv = 1 /\ conns[c1].resp.status = "stopping"
        /\ conns[c2].srv = 1 /\ conns[c2].resp.status = "stopping"
        /\ Phase(1) = 2

\* C20: every response with a non-empty error has exit_code 1 and empty stdout
\* and stderr, and the response written after a launched child exited has an
\* empty error: no response pairs an error with a child's exit code.
C20_ErrorResponsesCarryDaemonCode ==
    /\ [](\A c \in Conns :
            (conns[c].resp.written /\ conns[c].resp.error # "") =>
                /\ conns[c].resp.exit_code = 1
                /\ conns[c].resp.stdout = "" /\ conns[c].resp.stderr = "")
    /\ [][\A c \in Conns :
            (conns[c].st = "running" /\ conns'[c].st = "replied") =>
                /\ conns'[c].resp.error = ""
                /\ conns'[c].resp.exit_code \in ExitStatuses]_vars

\* a launch failure answered with an error, and a child's nonzero exit answered
\* with its output and no error
C20_Witness ==
    \E c1, c2 \in Conns :
        /\ conns[c1].st = "replied" /\ conns[c1].resp.error = "command failed"
        /\ conns[c1].resp.exit_code = 1
        /\ conns[c2].st = "replied" /\ conns[c2].proc.started
        /\ conns[c2].resp.exit_code = 1 /\ conns[c2].resp.stdout = "out"

\* the body of connection c decodes to an exec request for a command on the
\* allow-list
IsAllowedExecOf(c) == IsExecOf(c) /\ OnAllowList(CommandName(c))

LaunchFailed(c) ==
    IsAllowedExecOf(c) /\ conns[c].st = "replied" /\ ~conns[c].proc.started

\* C22: an allowed command that cannot be launched is answered with a
\* non-empty error and exit_code 1, and a response without error is only ever
\* written for a child that ran and exited.
C22_LaunchFailureIsAnError ==
    \A c \in Conns :
        /\ LaunchFailed(c) =>
              /\ conns[c].resp.error = "command failed"
              /\ conns[c].resp.exit_code = 1
              /\ conns[c].resp.stdout = "" /\ conns[c].resp.stderr = ""
        /\ (IsExecOf(c) /\ conns[c].st = "replied" /\ conns[c].resp.error = "") =>
              conns[c].proc.started /\ conns[c].proc.exited

\* a launch in a requested working directory failed and was reported
C22_Witness ==
    \E c \in Conns :
        /\ LaunchFailed(c) /\ Unmarshal(conns[c].body).req.Workdir = "/tmp"
        /\ conns[c].resp.error = "command failed"
        /\ listening[1]

\* the body of connection c decodes to an exec request without a command
IsEmptyExecOf(c) ==
    /\ conns[c].body.readable
    /\ Unmarshal(conns[c].body).ok
    /\ Unmarshal(conns[c].body).req.Type = "exec"
    /\ Len(Unmarshal(conns[c].body).req.Command) = 0

\* C23: an exec request with an empty or absent command list is answered with
\* error "no command specified" and exit_code 1, and no process is launched.
C23_EmptyCommandRejected ==
    \A c \in Conns :
        IsEmptyExecOf(c) =>
            /\ conns[c].st \in {"sent", "replied"}
            /\ ~conns[c].proc.started
            /\ conns[c].st = "replied" =>
                  conns[c].resp = writeErrorResponse("no command specified", 1)

\* an exec request whose body has no command member was answered
C23_Witness ==
    \E c \in Conns :
        /\ IsEmptyExecOf(c) /\ conns[c].body.command = AbsentCommand
        /\ conns[c].st = "replied"
        /\ conns[c].resp.error = "no command specified"

\* a required field of the body of an exec request is missing or empty
MissingRequired(b) == b.type = "exec" /\ Len(b.command.val) = 0

\* the daemon answered connection c with its decoding error
DecodingFailed(c) ==
    conns[c].st = "replied" /\ conns[c].resp.error = "invalid request format"

\* C24 as stated: decoding fails when the input is not well-formed or a required
\* field is missing; an exec request whose command is empty fails to decode.
C24_DecodeRejectsMissingFields ==
    \A c \in Conns :
        (/\ conns[c].st = "replied"
         /\ conns[c].body.readable
         /\ ~conns[c].body.wellFormed \/ MissingRequired(conns[c].body)) =>
            DecodingFailed(c)

\* C24 as amended: decoding fails exactly when the input is not well-formed
\* JSON or holds a value of the wrong type for a field; missing fields decode
\* to zero values, so an exec request whose command is empty or absent decodes.
C24_DecodeRejectsOnlyMalformed ==
    \A c \in Conns :
        (conns[c].st = "replied" /\ conns[c].body.readable) =>
            (DecodingFailed(c) <=>
                (~conns[c].body.wellFormed \/ conns[c].body.command.tag = "string"))

\* an exec request with an empty command list was decoded and answered by
\* handleExec
C24_Witness ==
    \E c \in Conns :
        /\ conns[c].body = JsonBody("exec", ArrayCommand(<<>>), "")
        /\ conns[c].st = "replied" /\ ~DecodingFailed(c)

\* the body of connection c decodes to a request of a kind ServeHTTP does not
\* know
IsUnknownKindOf(c) ==
    /\ conns[c].body.readable
    /\ Unmarshal(conns[c].body).ok
    /\ Unmarshal(conns[c].body).req.Type \notin {"exec", "status", "stop"}

\* the lifecycle state of the daemons is left as it is
LifecycleUnchanged ==
    UNCHANGED <<srvPc, listening, ctxCancelled, sockFile, listenErr>>

\* C25: a request of an unknown kind decodes, and the daemon answers it with an
\* error that names the kind and exit_code 1, launches no process and does not
\* start shutdown.
C25_UnknownKindAnsweredByDaemon ==
    /\ [](\A c \in Conns :
            IsUnknownKindOf(c) =>
                /\ conns[c].st \in {"sent", "replied"}
                /\ ~conns[c].proc.started
                /\ conns[c].st = "replied" =>
                      /\ conns[c].resp.error =
                            "unknown request type: " \o conns[c].body.type
                      /\ conns[c].resp.exit_code = 1)
    /\ [][\A c \in Conns :
            (HandlerStep(c) /\ IsUnknownKindOf(c)) => LifecycleUnchanged]_vars

\* a "restart" request that carries an allowed command was refused by name
C25_Witness ==
    \E c \in Conns :
        /\ conns[c].body = JsonBody("restart", ArrayCommand(<<S_gh>>), "")
        /\ conns[c].st = "replied"
        /\ conns[c].resp.error = "unknown request type: restart"
        /\ listening[1] /\ ~ctxCancelled[1]

\* the body of connection c cannot be read or does not decode
IsUndecodableOf(c) ==
    conns[c].st # "idle" /\ (~conns[c].body.readable \/ ~Unmarshal(conns[c].body).ok)

\* C26: a body that cannot be read or decoded is answered with an error
\* response with exit_code 1 and nothing is dispatched: no process is launched
\* and no shutdown starts, whatever the bytes say.
C26_UndecodableBodyNotDispatched ==
    /\ [](\A c \in Conns :
            IsUndecodableOf(c) =>
                /\ conns[c].st \in {"sent", "replied"}
                /\ ~conns[c].proc.started
                /\ conns[c].st = "replied" =>
                      /\ conns[c].resp.error \in {"failed to read request",
                                                   "invalid request format"}
                      /\ conns[c].resp.exit_code = 1
                      /\ conns[c].resp.status = "")
    /\ [][\A c \in Conns :
            (HandlerStep(c) /\ IsUndecodableOf(c)) => LifecycleUnchanged]_vars

\* a stop request with a string for its command list was refused and the daemon
\* goes on listening
C26_Witness ==
    \E c \in Conns :
        /\ conns[c].body = JsonBody("stop", StringCommand, "")
        /\ conns[c].st = "replied"
        /\ conns[c].resp.error = "invalid request format"
        /\ listening[1] /\ ~ctxCancelled[1]

\* the body of connection c decodes to a status request
IsStatusOf(c) ==
    /\ conns[c].body.readable
    /\ Unmarshal(conns[c].body).ok
    /\ Unmarshal(conns[c].body).req.Type = "status"

\* C28: a status request is answered with the fixed "running" acknowledgement
\* and changes nothing else: not the lifecycle state, not the other
\* connections, and no process is launched, whatever command or workdir it
\* carries.
C28_StatusHasNoSideEffect ==
    [][\A c \in Conns :
          (HandlerStep(c) /\ IsStatusOf(c)) =>
              /\ conns'[c] = [conns[c] EXCEPT !.st = "replied",
                                              !.resp = StatusReply("running")]
              /\ conns'[c].proc = NoProc
              /\ \A c2 \in Conns \ {c} : conns'[c2] = conns[c2]
              /\ LifecycleUnchanged]_vars

\* a status request that carries an allowed command and a workdir was answered
C28_Witness ==
    \E c \in Conns :
        /\ conns[c].body = JsonBody("status", ArrayCommand(<<S_gh, S_arg>>), "/tmp")
        /\ conns[c].st = "replied"
        /\ conns[c].resp = StatusReply("running")
        /\ ~conns[c].proc.started /\ listening[1] /\ ~ctxCancelled[1]

\* C27: a request or a response that was written and read back has the fields
\* it had, each of them exactly.
C27_RoundTripExact ==
    codecPc = "decoded" => codecOut = codecMsg

ExplicitName ==
    IF sshCodespace # <<>> THEN sshCodespace
    ELSE IF Len(sshArgs) > 0 THEN sshArgs[1]
    ELSE <<>>

\* the selection the state file records, if it records one
RecordedName ==
    IF stateFile.exists /\ stateFile.readable THEN TrimSpace(stateFile.data)
    ELSE <<>>

\* runSSH is past the resolution of its target and has one
TargetResolved ==
    loopPc # "resolve" /\ result \notin {"no_codespace", "state_error"}

\* there is no explicit name and no recorded selection
NoTarget ==
    /\ ExplicitName = <<>>
    /\ ~stateFile.exists \/ (stateFile.readable /\ RecordedName = <<>>)

\* C30: the target is resolved once, at the start: it is the explicit name
\* (the flag, else the positional argument) when one is given and the recorded
\* selection otherwise; without either the command ends with the no-target
\* error and starts no session attempt and no forwarder.
C30_TargetResolvedOnce ==
    /\ [](TargetResolved =>
            /\ name # <<>>
            /\ name = IF ExplicitName # <<>> THEN ExplicitName ELSE RecordedName)
    /\ [](NoTarget =>
            /\ loopPc \in {"resolve", "done"}
            /\ loopPc = "done" => result = "no_codespace"
            /\ attempts = 0 /\ portFwdCmd = "nil" /\ fwdProc = "none")
    /\ [][loopPc # "resolve" => name' = name]_vars

\* an empty positional argument and a state file of white space: the command
\* ended with the no-target error before any attempt
C30_Witness ==
    /\ sshCodespace = <<>> /\ sshArgs = <<<<>>>>
    /\ stateFile = StateFileOf(<<" ", "\n">>)
    /\ loopPc = "done" /\ result = "no_codespace"
    /\ attempts = 0 /\ fwdProc = "none"

\* the name the store should hold after the operations of log: that of the
\* last Set when no Clear followed it, else none
RECURSIVE SelectionAfter(_)
SelectionAfter(log) ==
    IF Len(log) = 0 THEN <<>>
    ELSE IF log[Len(log)].op = "Set" THEN log[Len(log)].name
    ELSE IF log[Len(log)].op = "Clear" THEN <<>>
    ELSE SelectionAfter(SubSeq(log, 1, Len(log) - 1))

\* C31: whatever Set and Clear operations came before, Get returns the name of
\* the most recent Set when no Clear followed it, and ErrNoCodespace when there
\* was no Set or a Clear followed the last one; Clear never fails, also on an
\* empty store.
C31_GetReturnsLastSet ==
    /\ storeLast.op = "Get" =>
          IF SelectionAfter(storeLog) # <<>>
          THEN storeLast.name = SelectionAfter(storeLog) /\ storeLast.err = "none"
          ELSE storeLast.name = <<>> /\ storeLast.err = "ErrNoCodespace"
    /\ storeLast.op = "Clear" => storeLast.err = "none"

\* Get returned the name of a Set that came after a Clear of an earlier Set
C31_Witness ==
    /\ Len(storeLog) >= 4
    /\ storeLog[1].op = "Set" /\ storeLog[1].name = N_flag
    /\ storeLog[2].op = "Clear"
    /\ storeLog[3].op = "Set" /\ storeLog[3].name = N_arg
    /\ storeLog[4] = [op |-> "Get", name |-> N_arg, err |-> "none"]

\* a turn of the delete loop whose deletion succeeded
DeletionSucceeds ==
    deletePc = "loop" /\ deleteIdx' = deleteIdx + 1 /\ failed' = failed

\* C32: the selection is cleared by a step of the delete command exactly when
\* that step deleted the currently selected codespace; a failed deletion, the
\* deletion of another codespace and every other step leave the state file as
\* it is.
C32_ClearedIffCurrentDeleted ==
    [][/\ (DeletionSucceeds /\ RecordedName # <<>>
            /\ toDelete[deleteIdx'] = RecordedName) =>
              Get(stateFile').err = "ErrNoCodespace"
       /\ ~(DeletionSucceeds /\ toDelete[deleteIdx'] = RecordedName) =>
              stateFile' = stateFile]_vars

\* the deletion of another codespace failed, that of the selected one
\* succeeded, and the selection is gone
C32_Witness ==
    /\ deletePc = "done"
    /\ toDelete = <<N_arg, N_cur>>
    /\ failed = <<N_arg>>
    /\ currentCS = N_cur
    /\ stateFile = NoStateFile
    /\ deleteErr = "failed to delete"

\* C33: a forwarder is started for an attempt only when the configuration of
\* the repository lists a port; without ports no forwarder process exists at
\* any time, none is signalled or waited for, and stopping the forwarder
\* changes nothing.
C33_ForwarderOnlyWithPorts ==
    /\ [](Len(ports) = 0 =>
            /\ fwdProc = "none" /\ portFwdCmd = "nil"
            /\ fwdSignals = <<>> /\ loopPc # "fwdwait" /\ ~timedOut)
    /\ [][(loopPc = "stop" /\ Len(ports) = 0) =>
            /\ loopPc' \in {"stop", "classify"}
            /\ UNCHANGED <<fwdProc, portFwdCmd, fwdSignals>>]_vars

\* a second attempt without ports has been stopped and no forwarder was there
C33_Witness ==
    /\ Len(ports) = 0 /\ attempts = 2 /\ loopPc = "classify"
    /\ fwdProc = "none" /\ fwdSignals = <<>>

\* C34: the allow-list decision depends only on the final path component of
\* command[0], while the process launched is command[0] as given: an exec
\* request for "<directory>/gh" is not refused, and when the launch succeeds
\* the process is that path with the remaining arguments in the requested
\* workdir.
C34_LaunchesCommandVerbatim ==
    /\ \A p, q \in Paths \cup {S_gh, S_dir_gh} :
          Base(p) = Base(q) => (isAllowedCommand(p) <=> isAllowedCommand(q))
    /\ \A c \in Conns :
          /\ (IsAllowedExecOf(c) /\ conns[c].st = "replied") =>
                conns[c].resp.error \in {"", "command failed"}
          /\ conns[c].proc.started =>
                /\ conns[c].proc.path = CommandName(c)
                /\ conns[c].proc.args = Tail(Unmarshal(conns[c].body).req.Command)
                /\ conns[c].proc.dir = Unmarshal(conns[c].body).req.Workdir

\* "/t/gh pr" was launched in /tmp
C34_Witness ==
    \E c \in Conns :
        /\ conns[c].body = JsonBody("exec", ArrayCommand(<<S_dir_gh, S_arg>>), "/tmp")
        /\ conns[c].proc.started
        /\ conns[c].proc.path = S_dir_gh
        /\ conns[c].proc.args = <<S_arg>>
        /\ conns[c].proc.dir = "/tmp"

\* the socket path is the binding of a daemon that is listening
BoundByLiveDaemon ==
    sockFile.exists /\ sockFile.owner \in Daemons /\ listening[sockFile.owner]

\* C35: the socket path of a listening daemon is never removed by a step of
\* another daemon: not by stale-socket removal, not by the removal at shutdown;
\* and a start that ends with "already running" or a bind error leaves the
\* path as it is.
C35_NeverRemovesLiveSocketOfOther ==
    /\ [][(BoundByLiveDaemon /\ sockFile' # sockFile) =>
            srvPc'[sockFile.owner] # srvPc[sockFile.owner]]_vars
    /\ [][\A d \in Daemons :
            (/\ listenErr'[d] # listenErr[d]
             /\ listenErr'[d] \in {"server already running",
                                   "failed to listen on socket"}) =>
                sockFile' = sockFile]_vars

\* sshOnce has returned
OnceReturned == ~useRetry /\ loopPc = "done" /\ attempts > 0

\* C36: without retry mode one session attempt is made, whatever its exit
\* status; the forwarder, if one was started, is sent SIGTERM, waited for and
\* killed only at the end of the wait, all before the context is cancelled,
\* and it is not running when sshOnce returns what the session returned.
C36_OnceStopsForwarderGracefully ==
    ~useRetry =>
        /\ attempts <= 1
        /\ ctxDone => OnceReturned
        /\ fwdSignals \in {<<>>, <<"SIGTERM">>, <<"SIGTERM", "SIGKILL">>}
        /\ OnceReturned =>
              /\ attempts = 1
              /\ ctxDone
              /\ fwdProc # "running"
              /\ portFwdCmd = "cmd" => fwdSignals[1] = "SIGTERM"
              /\ result = IF runErr = 0 THEN "session_ended" ELSE "session_failed"

\* the session failed, the forwarder had to be killed at the end of the wait,
\* and sshOnce returned the failure after that one attempt
C36_Witness ==
    /\ OnceReturned /\ result = "session_failed" /\ runErr # 0
    /\ attempts = 1
    /\ fwdSignals = <<"SIGTERM", "SIGKILL">> /\ fwdProc = "exited"

\* sshWithRetry returned with one of its outcomes
TerminalOutcome ==
    /\ Returned
    /\ result \in {"ended_normally", "disconnected", "reconnection_cancelled",
                   "max_retries"}

\* C37: with --max-retries N > 0, when every session exits and every forwarder
\* stop completes, the loop returns with one of its outcomes; it makes at most
\* N session attempts and the retry counter never exceeds N.
C37_BoundedLoopTerminates ==
    /\ [](sshMaxRetries > 0 =>
            attempts <= sshMaxRetries /\ retries <= sshMaxRetries)
    /\ (sshMaxRetries > 0) ~> TerminalOutcome

\* the largest bound was used up: as many failed sessions as --max-retries
C37_Witness ==
    /\ TerminalOutcome /\ result = "max_retries"
    /\ sshMaxRetries = MaxRetriesFlag
    /\ attempts = sshMaxRetries /\ retries = sshMaxRetries
    /\ runErr # 0

====
